---- MODULE Spec2Model ----
(***************************************************************************)
(* A model of the hayagriva entry graph (src/src/lib.rs): the Library     *)
(* container, the Library loader, Entry equality, the ancestor field       *)
(* resolution Entry::map / Entry::map_parents, and the selector matcher.   *)
(***************************************************************************)
EXTENDS Integers, Sequences, FiniteSets, TLC

VARIABLES
    mp_entry,    \* the entry map / map_parents is called on (self)
    mp_fld,      \* the field the probe f reads: "date" (date_any) or "url" (url_any)
    mp_mode,     \* "none", "map" or "map_parents": the call in progress
    mp_pc,       \* "idle", "loop" or "done"
    mp_path,     \* the local `path: Vec<usize>` (0-based indices)
    mp_probed,   \* the places f was called on, in call order (<<>> is self)
    mp_result,   \* the returned Option<T> (None or a value)
    lib,         \* Library.0: the IndexMap, as the sequence of its (key, entry) pairs
    lib_order,   \* history: the live keys in the order of their insertion
    lib_first,   \* history: per live key, the entry pushed when the key was absent
    lib_last,    \* history: per live key, the entry of the latest push of that key
    ld_input,    \* the serialized map handed to visit_map: (key, NakedEntry) pairs
    ld_pc,       \* "idle", "reading" or "done"
    ld_entries,  \* the local `entries` Vec of visit_map
    ld_result,   \* the Result<Library, Error> of the load
    eq_a,        \* left operand of Entry == Entry
    eq_b,        \* right operand
    eq_result,   \* "unset", or what the comparison returned: "equal" or "unequal"
    sel_s,       \* the selector of the query
    sel_e,       \* the entry the selector is run on
    sel_res,     \* what Selector::apply returned, once it was called
    sel_match,   \* "unset", or what Selector::matches returned: "true" or "false"
    bd_entry,    \* the entry under construction
    bd_last,     \* the last operation on it: "new" or the name of a setter
    sh_entry,    \* the entry social_handle is called on: type, authors, url
    sh_index,    \* the argument user_index
    sh_result,   \* what the call did: returned None, returned Some(handle), or panicked
    al_names,    \* the argument `names` of and_list
    al_pc,       \* "idle", "loop", "after" (behind the for loop) or "done"
    al_index,    \* the loop variable `index` (0-based)
    al_res,      \* the local `res`: the pieces appended to the String so far
    ie_entry,    \* the entry the IEEE generator formats
    ie_title,    \* what get_title_element returned, once it was called
    ie_addons,   \* what get_addons did, once it was called: its items, or a panic
    cn_entry,    \* the entry whose canonical parent is asked for
    cn_spec,     \* the EntryTypeSpec of a single check_with_spec call
    cn_check,    \* what check_with_spec(cn_spec) returned, once it was called
    cn_result,   \* what get_canonical_parent returned, once it was called
    th_graph,    \* the entry graph shared by the threads: an entry with its parents
    th_graph0,   \* history: the entry graph before any call
    th_pc,       \* per thread: "idle", "loop" (inside map_parents) or "done"
    th_call,     \* per thread: "none", or the call it is in or has finished
    th_sel,      \* per thread: the selector of its apply or matches call
    th_path,     \* per thread: the local `path` of its map_parents call
    th_result    \* per thread: what its finished call returned

mapVars == <<mp_entry, mp_fld, mp_mode, mp_pc, mp_path, mp_probed, mp_result>>

libVars == <<lib, lib_order, lib_first, lib_last>>
loadVars == <<ld_input, ld_pc, ld_entries, ld_result>>
eqVars == <<eq_a, eq_b, eq_result>>

selVars == <<sel_s, sel_e, sel_res, sel_match>>

buildVars == <<bd_entry, bd_last>>

socialVars == <<sh_entry, sh_index, sh_result>>

andVars == <<al_names, al_pc, al_index, al_res>>

ieeeVars == <<ie_entry, ie_title, ie_addons>>

canonVars == <<cn_entry, cn_spec, cn_check, cn_result>>

concVars == <<th_graph, th_graph0, th_pc, th_call, th_sel, th_path, th_result>>

vars == <<mapVars, libVars, loadVars, eqVars, selVars, canonVars, concVars,
          buildVars, socialVars, andVars, ieeeVars>>

-----------------------------------------------------------------------------
(* Bounds *)

\* the largest number of parents an entry of the model has
MaxParents == 2

\* the number of distinct keys in use
NumKeys == 3

\* the largest number of pairs in a serialized library
MaxInput == 3

-----------------------------------------------------------------------------
(* Entries *)

\* Option::None for a field value or an entry type
None == "None"

\* Option::<&Entry>::None
NoEntry == [none |-> TRUE]

\* All sequences over S of length at most n
SeqsUpTo(S, n) == UNION {[1..m -> S] : m \in 0..n}

\* struct Entry: key, entry_type, the optional fields (authors, date and url
\* stand for the fields of entry!), and the owned parent entries
MkEntry(k, t, d, u, ps) ==
    [key |-> k, entry_type |-> t, authors |-> None, date |-> d, url |-> u,
     parents |-> ps]

\* Entry::has (faulty variant: the arms of "date" and "url" read each
\* other's field)
hasWrongArm(e, fld) ==
    CASE fld = "date" -> e.url # None
      [] fld = "url"  -> e.date # None
      [] OTHER        -> FALSE

\* Entry::has: whether the field named fld is Some; false for unknown names
has(e, fld) ==
    CASE fld = "author" -> e.authors # None
      [] fld = "date" -> e.date # None
      [] fld = "url"  -> e.url # None
      [] OTHER        -> FALSE

\* Entry::parents (faulty variant: only the first parent is handed out)
parentsFirstOnly(e) == IF Len(e.parents) = 0 THEN <<>> ELSE <<e.parents[1]>>

\* Entry::parents
parents(e) == e.parents

\* the keys of the model
KeyPool == <<"a", "b", "c", "d", "e">>
Keys == {KeyPool[i] : i \in 1..NumKeys}

-----------------------------------------------------------------------------
(* Entry::map and Entry::map_parents *)

\* The probe closures of date_any / url_any: |e| e.date.as_ref(), |e| e.url.as_ref()
F(fld, e) == IF fld = "date" THEN e.date ELSE e.url

\* The entries the map calls are run on: an entry, its parents and its
\* grandparents, each with the field fld set or not.
MapEntry(fld, v, ps) ==
    MkEntry("k", "Misc", IF fld = "date" THEN v ELSE None,
            IF fld = "url" THEN v ELSE None, ps)
MapLeaves(fld) == {MapEntry(fld, v, <<>>) : v \in {None, "v"}}
MapInner(fld) ==
    {MapEntry(fld, v, ps) : v \in {None, "v"}, ps \in SeqsUpTo(MapLeaves(fld), MaxParents)}
MapRoots(fld) ==
    {MapEntry(fld, v, ps) : v \in {None, "v"}, ps \in SeqsUpTo(MapInner(fld), MaxParents)}

\* the closure `up`: pop the last index and advance the one before it
Up(path) ==
    LET p == SubSeq(path, 1, Len(path) - 1)
    IN IF Len(p) > 0 THEN [p EXCEPT ![Len(p)] = @ + 1] ELSE p

\* the loop `for i in 1..path.len()`: descend from item along path[i..];
\* ok is FALSE when an index exceeds the number of parents at its level
RECURSIVE Walk(_, _, _)
Walk(item, path, i) ==
    IF i > Len(path) THEN [ok |-> TRUE, item |-> item]
    ELSE IF path[i] >= Len(item.parents) THEN [ok |-> FALSE, item |-> item]
    ELSE Walk(item.parents[path[i] + 1], path, i + 1)

\* What Entry::map does before it delegates: probe self (faulty variant: go to the
\* parents without looking at self)
MapStartSkipSelf(fld, e) ==
    [pc |-> "loop", result |-> None, probed |-> <<>>, path |-> <<0>>]

\* Entry::map up to the call of map_parents: f(self) first
MapStart(fld, e) ==
    IF F(fld, e) # None
    THEN [pc |-> "done", result |-> F(fld, e), probed |-> << <<>> >>, path |-> <<>>]
    ELSE [pc |-> "loop", result |-> None, probed |-> << <<>> >>, path |-> <<0>>]

\* Entry::map is called
CallMap ==
    /\ mp_pc = "idle"
    /\ mp_mode' = "map"
    /\ LET s == MapStart(mp_fld, mp_entry) IN
        /\ mp_pc' = s.pc
        /\ mp_result' = s.result
        /\ mp_probed' = s.probed
        /\ mp_path' = s.path
    /\ UNCHANGED <<mp_entry, mp_fld>>
    /\ UNCHANGED <<libVars, loadVars, eqVars, selVars, canonVars, concVars, buildVars, socialVars, andVars, ieeeVars>>

\* Entry::map_parents is called: path = vec![0]
CallMapParents ==
    /\ mp_pc = "idle"
    /\ mp_mode' = "map_parents"
    /\ mp_pc' = "loop"
    /\ mp_path' = <<0>>
    /\ UNCHANGED <<mp_entry, mp_fld, mp_probed, mp_result>>
    /\ UNCHANGED <<libVars, loadVars, eqVars, selVars, canonVars, concVars, buildVars, socialVars, andVars, ieeeVars>>

\* The outcome of one iteration of 'outer (faulty variant: `*first_path += 1`
\* is left out)
LoopBodyNoAdvance(fld, e, path) ==
    IF Len(path) = 0 \/ Len(e.parents) <= path[1]
    THEN [pc |-> "done", result |-> None, path |-> path, probe |-> FALSE]
    ELSE LET v == F(fld, e.parents[path[1] + 1]) IN
         [pc |-> IF v # None THEN "done" ELSE "loop", result |-> v,
          path |-> path, probe |-> TRUE]

\* The outcome of one iteration of 'outer (faulty variant: the scan stops after the
\* first parent whatever f returned)
LoopBodyFirstOnly(fld, e, path) ==
    IF Len(path) = 0 \/ Len(e.parents) <= path[1]
    THEN [pc |-> "done", result |-> None, path |-> path, probe |-> FALSE]
    ELSE [pc |-> "done", result |-> F(fld, e.parents[path[1] + 1]),
          path |-> [path EXCEPT ![1] = @ + 1], probe |-> TRUE]

\* One iteration of 'outer in Entry::map_parents
LoopBody(fld, e, path) ==
    IF Len(path) = 0
    THEN [pc |-> "done", result |-> None, path |-> path, probe |-> FALSE]
    ELSE IF Len(e.parents) <= path[1]
    THEN [pc |-> "done", result |-> None, path |-> path, probe |-> FALSE]
    ELSE LET w == Walk(e.parents[path[1] + 1], path, 2) IN
         IF ~w.ok
         THEN [pc |-> "loop", result |-> None, path |-> Up(path), probe |-> FALSE]
         ELSE LET v == F(fld, w.item) IN
              [pc |-> IF v # None THEN "done" ELSE "loop",
               result |-> v,
               path |-> [path EXCEPT ![1] = @ + 1],
               probe |-> TRUE]

\* what a call of map_parents on e returns: its loop run to the end
RECURSIVE RunMapParents(_, _, _)
RunMapParents(fld, e, path) ==
    LET s == LoopBody(fld, e, path)
    IN IF s.pc = "done" THEN s.result ELSE RunMapParents(fld, e, s.path)

\* what a call of map on e returns
RunMap(fld, e) ==
    LET s == MapStart(fld, e)
    IN IF s.pc = "done" THEN s.result ELSE RunMapParents(fld, e, s.path)

\* Entry::date_any and Entry::url_any
date_any(e) == RunMap("date", e)
url_any(e) == RunMap("url", e)

\* A step of the loop of map_parents
LoopIter ==
    /\ mp_pc = "loop"
    /\ LET s == LoopBody(mp_fld, mp_entry, mp_path) IN
        /\ mp_pc' = s.pc
        /\ mp_result' = s.result
        /\ mp_path' = s.path
        /\ mp_probed' = IF s.probe THEN Append(mp_probed, mp_path) ELSE mp_probed
    /\ UNCHANGED <<mp_entry, mp_fld, mp_mode>>
    /\ UNCHANGED <<libVars, loadVars, eqVars, selVars, canonVars, concVars, buildVars, socialVars, andVars, ieeeVars>>

MapInit ==
    /\ mp_fld \in {"date", "url"}
    /\ mp_entry \in MapRoots(mp_fld)
    /\ mp_mode = "none"
    /\ mp_pc = "idle"
    /\ mp_path = <<>>
    /\ mp_probed = <<>>
    /\ mp_result = None

\* no map call is made in this behaviour
MapParked ==
    /\ mp_fld = "date"
    /\ mp_entry = MapEntry("date", None, <<>>)
    /\ mp_mode = "none"
    /\ mp_pc = "parked"
    /\ mp_path = <<>>
    /\ mp_probed = <<>>
    /\ mp_result = None

-----------------------------------------------------------------------------
(* Library: push, get, iter, keys, remove, nth over an IndexMap *)

\* the entries pushed into the library of the model
LibEntries == {MkEntry(k, t, None, None, <<>>) : k \in Keys, t \in {"Article", "Book"}}

\* the position (1-based) of key k in the map m, 0 when absent
RECURSIVE IndexOf(_, _)
IndexOf(m, k) ==
    IF Len(m) = 0 THEN 0
    ELSE IF m[Len(m)].key = k /\ IndexOf(SubSeq(m, 1, Len(m) - 1), k) = 0 THEN Len(m)
    ELSE IndexOf(SubSeq(m, 1, Len(m) - 1), k)

\* IndexMap::insert (faulty variant: the pair is appended without looking for the key)
InsertAppendAlways(m, k, v) == Append(m, [key |-> k, value |-> v])

\* IndexMap::insert: an equivalent key keeps its position and gets the new
\* value; a new key goes to the end
Insert(m, k, v) ==
    IF IndexOf(m, k) # 0
    THEN [m EXCEPT ![IndexOf(m, k)] = [key |-> k, value |-> v]]
    ELSE Append(m, [key |-> k, value |-> v])

\* IndexMap::remove, which is swap_remove: the last pair takes the place of
\* the removed one (shift_remove would keep the order)
SwapRemove(m, k) ==
    LET i == IndexOf(m, k)
        n == Len(m)
    IN IF i = 0 THEN m
       ELSE IF i = n THEN SubSeq(m, 1, n - 1)
       ELSE [j \in 1..(n - 1) |-> IF j = i THEN m[n] ELSE m[j]]

\* Library::get
Get(m, k) == IF IndexOf(m, k) = 0 THEN NoEntry ELSE m[IndexOf(m, k)].value

\* Library::iter
Iter(m) == [i \in 1..Len(m) |-> m[i].value]

\* Library::keys
KeysOf(m) == [i \in 1..Len(m) |-> m[i].key]

\* Library::nth (n is 0-based)
Nth(m, n) == IF n < Len(m) THEN m[n + 1].value ELSE NoEntry

\* Library::len
LibLen(m) == Len(m)

\* a sequence without the elements equal to x
RECURSIVE Without(_, _)
Without(q, x) ==
    IF Len(q) = 0 THEN <<>>
    ELSE IF q[1] = x THEN Without(Tail(q), x)
    ELSE <<q[1]>> \o Without(Tail(q), x)

\* Library::push(entry)
Push(e) ==
    /\ lib' = Insert(lib, e.key, e)
    /\ lib_order' = IF IndexOf(lib, e.key) = 0 THEN Append(lib_order, e.key) ELSE lib_order
    /\ lib_first' = IF IndexOf(lib, e.key) = 0 THEN [lib_first EXCEPT ![e.key] = e]
                    ELSE lib_first
    /\ lib_last' = [lib_last EXCEPT ![e.key] = e]
    /\ UNCHANGED <<mapVars, loadVars, eqVars, selVars, canonVars, concVars, buildVars, socialVars, andVars, ieeeVars>>

\* Library::remove(key)
Remove(k) ==
    /\ lib' = SwapRemove(lib, k)
    /\ lib_order' = Without(lib_order, k)
    /\ lib_first' = [lib_first EXCEPT ![k] = NoEntry]
    /\ lib_last' = [lib_last EXCEPT ![k] = NoEntry]
    /\ UNCHANGED <<mapVars, loadVars, eqVars, selVars, canonVars, concVars, buildVars, socialVars, andVars, ieeeVars>>

\* Library::new
LibInit ==
    /\ lib = <<>>
    /\ lib_order = <<>>
    /\ lib_first = [k \in Keys |-> NoEntry]
    /\ lib_last = [k \in Keys |-> NoEntry]

LibParked == LibInit

-----------------------------------------------------------------------------
(* Loading a library: Library::deserialize, MyVisitor::visit_map *)

\* EntryType::default_parent, the type an untyped parent takes from its child
DefaultParent(t) ==
    CASE t = "Article" -> "Periodical"
      [] t = "Anthos"  -> "Anthology"
      [] t = "Chapter" -> "Book"
      [] OTHER         -> "Misc"

\* struct NakedEntry: an entry as serialized, its type optional
MkNaked(t, ps) == [entry_type |-> t, parents |-> ps]
\* the serialized parents: one with an explicit type, and one without a type
\* that has a parent without a type itself
NakedParents == {MkNaked("Proceedings", <<>>), MkNaked(None, <<MkNaked(None, <<>>)>>)}
NakedTop == {MkNaked(t, ps) : t \in {None, "Article"}, ps \in SeqsUpTo(NakedParents, 1)}

\* the serialized maps: a key may occur more than once in the text
LoadInputs == SeqsUpTo([key : Keys, value : NakedTop], MaxInput)

\* the error of a failed conversion: E::custom("no entry type")
NoEntryType == [error |-> "no entry type"]

\* the load has not returned yet
Pending == [ok |-> FALSE, err |-> "pending", lib |-> <<>>]

\* `self.entry_type.or_else(..)` (faulty variant: the child's type is not
\* consulted)
ResolveTypeExplicitOnly(explicit, child) == explicit

\* `self.entry_type.or_else(|| child_entry_type.map(|e| e.default_parent()))`:
\* the explicit type, else the default parent of the child's type, else None
ResolveType(explicit, child) ==
    IF explicit # None THEN explicit
    ELSE IF child # None THEN DefaultParent(child)
    ELSE None

\* NakedEntry::into_entry(key, child_entry_type): the Entry, or NoEntryType
RECURSIVE IntoEntry(_, _, _)
IntoEntry(naked, key, child) ==
    LET entry_type == ResolveType(naked.entry_type, child)
        ps == [i \in 1..Len(naked.parents) |->
                  IntoEntry(naked.parents[i], key, entry_type)]
    IN IF entry_type = None THEN NoEntryType
       ELSE IF \E i \in 1..Len(ps) : ps[i] = NoEntryType THEN NoEntryType
       ELSE MkEntry(key, entry_type, None, None, ps)

\* collect() over the converted pairs (faulty variant: each pair is put in
\* front of the ones collected before it)
RECURSIVE CollectInFront(_, _)
CollectInFront(pairs, acc) ==
    IF Len(pairs) = 0 THEN [ok |-> TRUE, err |-> None, lib |-> acc]
    ELSE LET e == IntoEntry(pairs[1].value, pairs[1].key, None)
         IN IF e = NoEntryType
            THEN [ok |-> FALSE, err |-> NoEntryType.error, lib |-> <<>>]
            ELSE CollectInFront(Tail(pairs),
                                <<[key |-> pairs[1].key, value |-> e]>> \o acc)

\* collect::<Result<IndexMap<_, _>, _>>() over the converted pairs
RECURSIVE Collect(_, _)
Collect(pairs, acc) ==
    IF Len(pairs) = 0 THEN [ok |-> TRUE, err |-> None, lib |-> acc]
    ELSE LET e == IntoEntry(pairs[1].value, pairs[1].key, None)
         IN IF e = NoEntryType
            THEN [ok |-> FALSE, err |-> NoEntryType.error, lib |-> <<>>]
            ELSE Collect(Tail(pairs), Insert(acc, pairs[1].key, e))

\* The loop body of visit_map (faulty variant: the duplicate check is left out)
ReadKeyNoCheck(entries, pair) ==
    [pc |-> "reading", entries |-> Append(entries, pair), result |-> Pending]

\* The loop body of visit_map for the next key of the map: a key already in
\* `entries` ends the load with an error
ReadKey(entries, pair) ==
    IF \E i \in 1..Len(entries) : entries[i].key = pair.key
    THEN [pc |-> "done", entries |-> entries,
          result |-> [ok |-> FALSE, err |-> "duplicate key", lib |-> <<>>]]
    ELSE [pc |-> "reading", entries |-> Append(entries, pair), result |-> Pending]

\* from_yaml_str / Library::deserialize starts visit_map
LoadStart ==
    /\ ld_pc = "idle"
    /\ ld_pc' = "reading"
    /\ ld_entries' = <<>>
    /\ UNCHANGED <<ld_input, ld_result>>
    /\ UNCHANGED <<mapVars, libVars, eqVars, selVars, canonVars, concVars, buildVars, socialVars, andVars, ieeeVars>>

\* one iteration of `while let Some(key) = map.next_key()`
LoadReadKey ==
    /\ ld_pc = "reading"
    /\ Len(ld_entries) < Len(ld_input)
    /\ LET s == ReadKey(ld_entries, ld_input[Len(ld_entries) + 1]) IN
        /\ ld_pc' = s.pc
        /\ ld_entries' = s.entries
        /\ ld_result' = s.result
    /\ UNCHANGED ld_input
    /\ UNCHANGED <<mapVars, libVars, eqVars, selVars, canonVars, concVars, buildVars, socialVars, andVars, ieeeVars>>

\* the map is exhausted: convert the pairs and build the Library
LoadFinish ==
    /\ ld_pc = "reading"
    /\ Len(ld_entries) = Len(ld_input)
    /\ ld_pc' = "done"
    /\ ld_result' = Collect(ld_entries, <<>>)
    /\ UNCHANGED <<ld_input, ld_entries>>
    /\ UNCHANGED <<mapVars, libVars, eqVars, selVars, canonVars, concVars, buildVars, socialVars, andVars, ieeeVars>>

LoadInit ==
    /\ ld_input \in LoadInputs
    /\ ld_pc = "idle"
    /\ ld_entries = <<>>
    /\ ld_result = Pending

LoadParked ==
    /\ ld_input = <<>>
    /\ ld_pc = "parked"
    /\ ld_entries = <<>>
    /\ ld_result = Pending

-----------------------------------------------------------------------------
(* Entry equality: #[derive(PartialEq)] on struct Entry *)

\* the entries compared
EqParents ==
    {MkEntry(k, t, None, None, <<>>) :
        k \in {KeyPool[1], KeyPool[2]}, t \in {"Periodical"}}
    \cup {MkEntry(KeyPool[1], "Proceedings", None, None, <<>>)}
EqEntries ==
    {MkEntry(k, t, d, None, ps) :
        k \in {KeyPool[1], KeyPool[2]}, t \in {"Article", "Book"},
        d \in {None, "v"}, ps \in SeqsUpTo(EqParents, MaxParents)}

\* Entry::eq (faulty variant: the key is left out of the comparison, at every level)
RECURSIVE EntryEqNoKey(_, _)
EntryEqNoKey(a, b) ==
    /\ a.entry_type = b.entry_type
    /\ a.authors = b.authors
    /\ a.date = b.date
    /\ a.url = b.url
    /\ Len(a.parents) = Len(b.parents)
    /\ \A i \in 1..Len(a.parents) :
          i <= Len(b.parents) => EntryEqNoKey(a.parents[i], b.parents[i])

\* the comparison of the parents Vecs, inside the derived Entry::eq
RECURSIVE ParentsEq(_, _)

\* Entry::eq as derived: every field of the struct, in declaration order
EntryEq(a, b) ==
    /\ a.key = b.key
    /\ a.entry_type = b.entry_type
    /\ a.authors = b.authors
    /\ a.date = b.date
    /\ a.url = b.url
    /\ ParentsEq(a.parents, b.parents)

ParentsEq(p, q) ==
    /\ Len(p) = Len(q)
    /\ \A i \in 1..Len(p) : i <= Len(q) => EntryEq(p[i], q[i])

\* a == b is evaluated
Compare ==
    /\ eq_result = "unset"
    /\ eq_result' = IF EntryEq(eq_a, eq_b) THEN "equal" ELSE "unequal"
    /\ UNCHANGED <<eq_a, eq_b>>
    /\ UNCHANGED <<mapVars, libVars, loadVars, selVars, canonVars, concVars, buildVars, socialVars, andVars, ieeeVars>>

EqInit ==
    /\ eq_a \in EqEntries
    /\ eq_b \in EqEntries
    /\ eq_result = "unset"

EqParked ==
    /\ eq_a = MkEntry(KeyPool[1], "Misc", None, None, <<>>)
    /\ eq_b = MkEntry(KeyPool[1], "Misc", None, None, <<>>)
    /\ eq_result = "parked"

-----------------------------------------------------------------------------
(* Selectors: the AST and the matcher (Selector::apply, Selector::matches) *)

\* the AST nodes: `*`, a type, `!s`, `name:s`, `s[attr]`, `a | b`, `a & b`, `a > b`
Wildcard == [op |-> "Wildcard"]
Type(kind) == [op |-> "Type", kind |-> kind]
Not(s) == [op |-> "Not", inner |-> s]
Capture(name, s) == [op |-> "Capture", name |-> name, inner |-> s]
AttrFilter(s, attr) == [op |-> "AttrFilter", inner |-> s, attr |-> attr]
Or(ss) == [op |-> "Or", inners |-> ss]
And(ss) == [op |-> "And", inners |-> ss]
Parent(child, anc) == [op |-> "Parent", child |-> child, anc |-> anc]

\* An entry of the graph under root r is addressed by its place: <<>> is r,
\* <<i>> its i-th parent, <<i, j>> the j-th parent of that one.
RECURSIVE At(_, _)
At(r, place) ==
    IF Len(place) = 0 THEN r ELSE At(r.parents[place[1]], Tail(place))

\* the places of the parents of the entry at place, in declared order
ParentPlaces(r, place) ==
    [i \in 1..Len(parents(At(r, place))) |-> Append(place, i)]

\* Bindings: a map from capture names to places, as a set of pairs
EmptyBindings == {}
Bind(b, name, place) ==
    {x \in b : x.name # name} \cup {[name |-> name, at |-> place]}
Extend(b, c) == {x \in b : \A y \in c : y.name # x.name} \cup c
BoundNames(b) == {x.name : x \in b}
Bound(b, name) == (CHOOSE x \in b : x.name = name).at

\* Option<Bindings>
NoMatch == [some |-> FALSE, b |-> EmptyBindings]
Some(b) == [some |-> TRUE, b |-> b]

\* (faulty variant: only the first result is looked at)
FirstOnly(rs) == IF Len(rs) = 0 THEN NoMatch ELSE rs[1]

\* the first Some of a sequence of results, else None
RECURSIVE FirstSome(_)
FirstSome(rs) ==
    IF Len(rs) = 0 THEN NoMatch
    ELSE IF rs[1].some THEN rs[1]
    ELSE FirstSome(Tail(rs))

\* Capture (faulty variant: the name is bound to the first candidate, whichever
\* candidate satisfied the sub-selector)
CaptureResultFirstCand(name, cands, rs) ==
    LET r == FirstSome(rs)
    IN IF r.some THEN Some(Bind(r.b, name, cands[1])) ELSE NoMatch

\* Capture: rs[i] is the result of the sub-selector on cands[i]; the name is
\* bound to the first candidate that satisfied it
RECURSIVE CaptureResult(_, _, _)
CaptureResult(name, cands, rs) ==
    IF Len(rs) = 0 THEN NoMatch
    ELSE IF rs[1].some THEN Some(Bind(rs[1].b, name, cands[1]))
    ELSE CaptureResult(name, Tail(cands), Tail(rs))

\* And: every operand succeeds; the bindings of all operands are merged
RECURSIVE AndResult(_)
AndResult(rs) ==
    IF Len(rs) = 0 THEN Some(EmptyBindings)
    ELSE LET rest == AndResult(Tail(rs))
         IN IF rs[1].some /\ rest.some THEN Some(Extend(rs[1].b, rest.b))
            ELSE NoMatch

\* Not (faulty variant: a sub-selector that bound nothing counts as failed)
NotResultEmptyIsNone(rs) ==
    IF \E i \in 1..Len(rs) : ~rs[i].some \/ rs[i].b = EmptyBindings
    THEN Some(EmptyBindings) ELSE NoMatch

\* Not: rs[i] is the result of the sub-selector on the i-th candidate; Not
\* succeeds, binding nothing, against a candidate on which it failed
NotResult(rs) ==
    IF \E i \in 1..Len(rs) : ~rs[i].some THEN Some(EmptyBindings) ELSE NoMatch

\* Parent for one candidate: the child result and the result over its parents
ParentResult(child, anc) ==
    IF child.some /\ anc.some THEN Some(Extend(child.b, anc.b)) ELSE NoMatch

\* The evaluator: selector s against the candidates cands (places under r).
\* At the top there is one candidate; on the ancestor side of `>` the
\* candidates are the parents of the entry that matched the child side. A
\* node succeeds when it succeeds against one candidate; the operands of And
\* and Or are each evaluated over all candidates.
RECURSIVE ApplyAny(_, _, _)
ApplyAny(s, r, cands) ==
    CASE s.op = "Wildcard" ->
            IF Len(cands) > 0 THEN Some(EmptyBindings) ELSE NoMatch
      [] s.op = "Type" ->
            IF \E i \in 1..Len(cands) : At(r, cands[i]).entry_type = s.kind
            THEN Some(EmptyBindings) ELSE NoMatch
      [] s.op = "AttrFilter" ->
            FirstSome([i \in 1..Len(cands) |->
                IF has(At(r, cands[i]), s.attr)
                THEN ApplyAny(s.inner, r, <<cands[i]>>) ELSE NoMatch])
      [] s.op = "Not" ->
            NotResult([i \in 1..Len(cands) |-> ApplyAny(s.inner, r, <<cands[i]>>)])
      [] s.op = "Capture" ->
            CaptureResult(s.name, cands,
                [i \in 1..Len(cands) |-> ApplyAny(s.inner, r, <<cands[i]>>)])
      [] s.op = "Or" ->
            FirstSome([i \in 1..Len(s.inners) |-> ApplyAny(s.inners[i], r, cands)])
      [] s.op = "And" ->
            AndResult([i \in 1..Len(s.inners) |-> ApplyAny(s.inners[i], r, cands)])
      [] s.op = "Parent" ->
            FirstSome([i \in 1..Len(cands) |->
                ParentResult(ApplyAny(s.child, r, <<cands[i]>>),
                             ApplyAny(s.anc, r, ParentPlaces(r, cands[i])))])

\* Selector::apply (faulty variant: None when nothing was bound)
ApplyNoneWhenEmpty(s, e) ==
    LET res == ApplyAny(s, e, << <<>> >>)
    IN IF res.b = EmptyBindings THEN NoMatch ELSE res

\* Selector::apply(entry)
Apply(s, e) == ApplyAny(s, e, << <<>> >>)

\* The success conditions of the nodes, as a truth value
RECURSIVE MatchesAny(_, _, _)
MatchesAny(s, r, cands) ==
    CASE s.op = "Wildcard" -> Len(cands) > 0
      [] s.op = "Type" ->
            \E i \in 1..Len(cands) : At(r, cands[i]).entry_type = s.kind
      [] s.op = "AttrFilter" ->
            \E i \in 1..Len(cands) :
                has(At(r, cands[i]), s.attr) /\ MatchesAny(s.inner, r, <<cands[i]>>)
      [] s.op = "Not" ->
            \E i \in 1..Len(cands) : ~MatchesAny(s.inner, r, <<cands[i]>>)
      [] s.op = "Capture" ->
            \E i \in 1..Len(cands) : MatchesAny(s.inner, r, <<cands[i]>>)
      [] s.op = "Or" ->
            \E i \in 1..Len(s.inners) : MatchesAny(s.inners[i], r, cands)
      [] s.op = "And" ->
            \A i \in 1..Len(s.inners) : MatchesAny(s.inners[i], r, cands)
      [] s.op = "Parent" ->
            \E i \in 1..Len(cands) :
                /\ MatchesAny(s.child, r, <<cands[i]>>)
                /\ MatchesAny(s.anc, r, ParentPlaces(r, cands[i]))

\* Selector::matches (faulty variant: the selector is run on the parents of
\* the entry instead of the entry)
MatchesOnParents(s, e) == MatchesAny(s, e, ParentPlaces(e, <<>>))

\* Selector::matches(entry)
Matches(s, e) == MatchesAny(s, e, << <<>> >>)

\* the entries the selectors are run on: an entry and its parents; media
\* items with or without a URL, and papers with or without a date under
\* journals and proceedings
SelTypes == {"Article", "Conference", "Video"}
SelParents == {MkEntry("k", t, None, u, <<>>) : t \in SelTypes, u \in {None, "v"}}
SelContainers == {MkEntry("k", t, None, None, <<>>) : t \in {"Periodical", "Proceedings"}}
SelEntries ==
    {MkEntry("k", t, None, u, ps) :
        t \in SelTypes, u \in {None, "v"}, ps \in SeqsUpTo(SelParents, MaxParents)}
    \cup {MkEntry("k", t, d, None, ps) :
        t \in {"Article", "Book"}, d \in {None, "v"},
        ps \in SeqsUpTo(SelContainers, MaxParents)}

\* `a:article > (b:conference & c:(video|blog|web))`
SelWwdc ==
    Parent(Capture("a", Type("Article")),
           And(<<Capture("b", Type("Conference")),
                 Capture("c", Or(<<Type("Video"), Type("Blog"), Type("Web")>>))>>))

\* `*[url]`
SelUrl == AttrFilter(Wildcard, "url")

\* `!(*[url] | (* > *[url]))`
SelNoUrl == Not(Or(<<SelUrl, Parent(Wildcard, SelUrl)>>))

\* `article > proceedings`
SelInProceedings == Parent(Type("Article"), Type("Proceedings"))

\* `(Article["date"]) > ("journal":Periodical)`
SelJournal ==
    Parent(AttrFilter(Type("Article"), "date"), Capture("journal", Type("Periodical")))

\* small selectors, their capture (if any) named n
SelUnits(n) ==
    {Wildcard, Type("Article"), Type("Video"),
     Capture(n, Type("Article")), Capture(n, Type("Video")), Capture(n, Wildcard),
     Not(Type("Video")), SelUrl}

\* a first branch that binds x and then fails on an Article
SelFailingAnd == And(<<Capture("x", Type("Article")), Type("Conference")>>)
SelOrAfterFailure == Or(<<SelFailingAnd, Capture("y", Wildcard)>>)

\* `(x | y) | z` over operands with captures and parent relations
SelOrNested ==
    {Or(<<Or(<<x, y>>), z>>) :
        x \in {Capture("a", Type("Article")),
                Parent(Type("Article"), Capture("p", Type("Video")))},
        y \in {Type("Video"), Capture("b", SelUrl)},
        z \in {Not(Type("Video")), Parent(Wildcard, SelUrl)}}

\* `!!s`
SelNotNot ==
    {Not(Not(x)) : x \in SelUnits("a") \cup {SelWwdc, SelJournal, SelInProceedings}}

\* the selectors of the model: the units, every binary combination of two
\* units, and selectors whose first branch binds a name and then fails; no
\* selector uses a capture name twice
Selectors ==
    SelUnits("a")
    \cup {Or(<<x, y>>) : x \in SelUnits("a"), y \in SelUnits("b")}
    \cup {And(<<x, y>>) : x \in SelUnits("a"), y \in SelUnits("b")}
    \cup {Parent(x, y) : x \in SelUnits("a"), y \in SelUnits("b")}
    \cup {SelInProceedings, SelJournal}
    \cup SelOrNested
    \cup SelNotNot
    \cup {SelWwdc, SelNoUrl, Not(Not(SelUrl)), SelOrAfterFailure,
          Or(<<Parent(Capture("x", Wildcard), Type("Video")), Capture("y", Wildcard)>>),
          Parent(Capture("a", Wildcard), Capture("b", AttrFilter(Type("Video"), "url"))),
          Parent(Wildcard, And(<<Capture("x", Type("Video")), Capture("y", SelUrl)>>)),
          Parent(Capture("a", Wildcard), Capture("p", Parent(Wildcard, Wildcard)))}

\* apply has not been called
NotApplied == [done |-> FALSE, some |-> FALSE, b |-> EmptyBindings]

\* selector.apply(entry) is called
DoApply ==
    /\ ~sel_res.done
    /\ LET res == Apply(sel_s, sel_e) IN
        sel_res' = [done |-> TRUE, some |-> res.some, b |-> res.b]
    /\ UNCHANGED <<sel_s, sel_e, sel_match>>
    /\ UNCHANGED <<mapVars, libVars, loadVars, eqVars, canonVars, concVars, buildVars, socialVars, andVars, ieeeVars>>

\* selector.matches(entry) is called
DoMatches ==
    /\ sel_match = "unset"
    /\ sel_match' = IF Matches(sel_s, sel_e) THEN "true" ELSE "false"
    /\ UNCHANGED <<sel_s, sel_e, sel_res>>
    /\ UNCHANGED <<mapVars, libVars, loadVars, eqVars, canonVars, concVars, buildVars, socialVars, andVars, ieeeVars>>

SelInit ==
    /\ sel_s \in Selectors
    /\ sel_e \in SelEntries
    /\ sel_res = NotApplied
    /\ sel_match = "unset"

SelParked ==
    /\ sel_s = Wildcard
    /\ sel_e = MkEntry("k", "Misc", None, None, <<>>)
    /\ sel_res = NotApplied
    /\ sel_match = "parked"

-----------------------------------------------------------------------------
(* The canonical parent: get_canonical_parent, Entry::check_with_spec *)

\* EntryTypeModality (Any, Specific, Alternate): which types a node may have
AnyType == [kind |-> "Any", types |-> {}]
Specific(t) == [kind |-> "Specific", types |-> {t}]
Alternate(ts) == [kind |-> "Alternate", types |-> ts]

\* whether the type t satisfies the modality m
Satisfies(m, t) == m.kind = "Any" \/ t \in m.types

\* EntryTypeSpec::single_parent(here, parent)
single_parent(here, parent) == [here |-> here, parent |-> parent]

section_spec == single_parent(Alternate({"Chapter", "Scene", "WebItem"}), AnyType)
anthology_spec == single_parent(Specific("InAnthology"), Specific("Anthology"))
entry_spec == single_parent(Specific("Entry"), Alternate({"Reference", "Repository"}))
proc_spec == single_parent(AnyType, Specific("Proceedings"))
periodical_spec == single_parent(Specific("Article"), Specific("Periodical"))

\* the specs in the order get_canonical_parent tries them
CanonSpecs == <<anthology_spec, periodical_spec, entry_spec, proc_spec, section_spec>>

\* the positions (0-based) of the parents of e that satisfy the parent
\* modality of spec
Qualifying(e, spec) ==
    {i \in 0..(Len(e.parents) - 1) : Satisfies(spec.parent, e.parents[i + 1].entry_type)}

\* Result<Vec<usize>, ()> of check_with_spec
CheckErr == [ok |-> FALSE, pos |-> <<>>]
CheckOk(r) == [ok |-> TRUE, pos |-> r]

\* Entry::check_with_spec for a single-parent spec: the position of the one
\* qualifying parent when the entry's own type satisfies the node modality,
\* an error when it does not or when no or several parents qualify
check_with_spec(e, spec) ==
    LET q == Qualifying(e, spec)
    IN IF Satisfies(spec.here, e.entry_type) /\ Cardinality(q) = 1
       THEN CheckOk(<<CHOOSE i \in q : TRUE>>)
       ELSE CheckErr

\* Result::or_else
or_else(r, next) == IF r.ok THEN r ELSE next

\* Option<&Entry>: None, or the parent found and its position
CanonNone == [found |-> FALSE]
CanonSome(i, p) == [found |-> TRUE, pos |-> i, parent |-> p]

\* `entry.get_parents_ref().unwrap().get(r[0]).unwrap()` (faulty variant: the
\* first parent is taken whatever r[0] is)
GetParentFirst(e, i) == CanonSome(i, e.parents[1])

\* `entry.get_parents_ref().unwrap().get(r[0]).unwrap()`, r[0] 0-based
GetParent(e, i) == CanonSome(i, e.parents[i + 1])

\* get_canonical_parent (faulty variant: the Proceedings check is tried
\* before the Periodical check)
get_canonical_parentProcFirst(e) ==
    LET r == or_else(or_else(or_else(or_else(
                 check_with_spec(e, anthology_spec),
                 check_with_spec(e, proc_spec)),
                 check_with_spec(e, periodical_spec)),
                 check_with_spec(e, entry_spec)),
                 check_with_spec(e, section_spec))
    IN IF r.ok THEN GetParent(e, r.pos[1]) ELSE CanonNone

\* get_canonical_parent(entry)
get_canonical_parent(e) ==
    LET r == or_else(or_else(or_else(or_else(
                 check_with_spec(e, anthology_spec),
                 check_with_spec(e, periodical_spec)),
                 check_with_spec(e, entry_spec)),
                 check_with_spec(e, proc_spec)),
                 check_with_spec(e, section_spec))
    IN IF r.ok THEN GetParent(e, r.pos[1]) ELSE CanonNone

\* the entries asked for their canonical parent
CanonTypes == {"Article", "InAnthology", "Entry", "Chapter", "Misc"}
CanonParentTypes == {"Periodical", "Proceedings", "Anthology", "Reference", "Misc"}
CanonParents == {MkEntry("k", t, None, None, <<>>) : t \in CanonParentTypes}
CanonEntries ==
    {MkEntry("k", t, None, None, ps) :
        t \in CanonTypes, ps \in SeqsUpTo(CanonParents, MaxParents)}

NotChecked == [checked |-> FALSE]
NotCalled == [called |-> FALSE]

\* entry.check_with_spec(cn_spec)
DoCheckWithSpec ==
    /\ cn_check = NotChecked
    /\ cn_check' = check_with_spec(cn_entry, cn_spec)
    /\ UNCHANGED <<cn_entry, cn_spec, cn_result>>
    /\ UNCHANGED <<mapVars, libVars, loadVars, eqVars, selVars, concVars, buildVars, socialVars, andVars, ieeeVars>>

\* get_canonical_parent(&cn_entry)
DoGetCanonicalParent ==
    /\ cn_result = NotCalled
    /\ cn_result' = get_canonical_parent(cn_entry)
    /\ UNCHANGED <<cn_entry, cn_spec, cn_check>>
    /\ UNCHANGED <<mapVars, libVars, loadVars, eqVars, selVars, concVars, buildVars, socialVars, andVars, ieeeVars>>

CanonInit ==
    /\ cn_entry \in CanonEntries
    /\ cn_spec \in {CanonSpecs[k] : k \in 1..Len(CanonSpecs)}
    /\ cn_check = NotChecked
    /\ cn_result = NotCalled

\* no canonical parent is asked for in this behaviour
CanonParked ==
    /\ cn_entry = MkEntry("k", "Misc", None, None, <<>>)
    /\ cn_spec = proc_spec
    /\ cn_check = [checked |-> FALSE, parked |-> TRUE]
    /\ cn_result = [called |-> FALSE, parked |-> TRUE]

-----------------------------------------------------------------------------
(* Queries from several threads on one entry graph: Entry::map,
   Entry::map_parents, Selector::apply, Selector::matches *)

NumThreads == 2

Threads == 1..NumThreads

\* the closure the threads pass to map and map_parents: |e| e.url.as_ref()
ConcField == "url"

\* the shared entry graphs: an entry and its parents, each with a url or not
ConcGraphs == MapInner(ConcField)

\* the selectors the threads apply
ConcSelectors == {SelUrl, Parent(Capture("a", Wildcard), Capture("p", SelUrl))}

\* the receiver `&self` (faulty variant: the call takes the parents out of
\* the entry)
BorrowedTakesParents(e) == [e EXCEPT !.parents = <<>>]

\* the receiver `&self` of map, map_parents, apply and matches: the entry as
\* the call leaves it
Borrowed(e) == e

\* thread t calls th_graph.map(f)
ThCallMap(t) ==
    /\ th_pc[t] = "idle"
    /\ LET s == MapStart(ConcField, th_graph) IN
        /\ th_pc' = [th_pc EXCEPT ![t] = s.pc]
        /\ th_result' = [th_result EXCEPT ![t] = s.result]
        /\ th_path' = [th_path EXCEPT ![t] = s.path]
    /\ th_call' = [th_call EXCEPT ![t] = "map"]
    /\ th_graph' = Borrowed(th_graph)
    /\ UNCHANGED <<th_graph0, th_sel>>
    /\ UNCHANGED <<mapVars, libVars, loadVars, eqVars, selVars, canonVars, buildVars, socialVars, andVars, ieeeVars>>

\* thread t calls th_graph.map_parents(f)
ThCallMapParents(t) ==
    /\ th_pc[t] = "idle"
    /\ th_pc' = [th_pc EXCEPT ![t] = "loop"]
    /\ th_path' = [th_path EXCEPT ![t] = <<0>>]
    /\ th_call' = [th_call EXCEPT ![t] = "map_parents"]
    /\ th_graph' = Borrowed(th_graph)
    /\ UNCHANGED <<th_graph0, th_sel, th_result>>
    /\ UNCHANGED <<mapVars, libVars, loadVars, eqVars, selVars, canonVars, buildVars, socialVars, andVars, ieeeVars>>

\* thread t runs one iteration of 'outer of map_parents
ThLoopIter(t) ==
    /\ th_pc[t] = "loop"
    /\ LET s == LoopBody(ConcField, th_graph, th_path[t]) IN
        /\ th_pc' = [th_pc EXCEPT ![t] = s.pc]
        /\ th_result' = [th_result EXCEPT ![t] = s.result]
        /\ th_path' = [th_path EXCEPT ![t] = s.path]
    /\ th_graph' = Borrowed(th_graph)
    /\ UNCHANGED <<th_graph0, th_call, th_sel>>
    /\ UNCHANGED <<mapVars, libVars, loadVars, eqVars, selVars, canonVars, buildVars, socialVars, andVars, ieeeVars>>

\* thread t calls s.apply(&th_graph)
ThApply(t, s) ==
    /\ th_pc[t] = "idle"
    /\ th_pc' = [th_pc EXCEPT ![t] = "done"]
    /\ th_call' = [th_call EXCEPT ![t] = "apply"]
    /\ th_sel' = [th_sel EXCEPT ![t] = s]
    /\ th_result' = [th_result EXCEPT ![t] = Apply(s, th_graph)]
    /\ th_graph' = Borrowed(th_graph)
    /\ UNCHANGED <<th_graph0, th_path>>
    /\ UNCHANGED <<mapVars, libVars, loadVars, eqVars, selVars, canonVars, buildVars, socialVars, andVars, ieeeVars>>

\* thread t calls s.matches(&th_graph)
ThMatches(t, s) ==
    /\ th_pc[t] = "idle"
    /\ th_pc' = [th_pc EXCEPT ![t] = "done"]
    /\ th_call' = [th_call EXCEPT ![t] = "matches"]
    /\ th_sel' = [th_sel EXCEPT ![t] = s]
    /\ th_result' = [th_result EXCEPT ![t] = IF Matches(s, th_graph) THEN "true" ELSE "false"]
    /\ th_graph' = Borrowed(th_graph)
    /\ UNCHANGED <<th_graph0, th_path>>
    /\ UNCHANGED <<mapVars, libVars, loadVars, eqVars, selVars, canonVars, buildVars, socialVars, andVars, ieeeVars>>

\* thread t drops the value its call returned and is free for the next call
ThReturn(t) ==
    /\ th_pc[t] = "done"
    /\ th_pc' = [th_pc EXCEPT ![t] = "idle"]
    /\ th_call' = [th_call EXCEPT ![t] = "none"]
    /\ th_sel' = [th_sel EXCEPT ![t] = Wildcard]
    /\ th_path' = [th_path EXCEPT ![t] = <<>>]
    /\ th_result' = [th_result EXCEPT ![t] = None]
    /\ UNCHANGED <<th_graph, th_graph0>>
    /\ UNCHANGED <<mapVars, libVars, loadVars, eqVars, selVars, canonVars, buildVars, socialVars, andVars, ieeeVars>>

ConcInit ==
    /\ th_graph \in ConcGraphs
    /\ th_graph0 = th_graph
    /\ th_pc = [t \in Threads |-> "idle"]
    /\ th_call = [t \in Threads |-> "none"]
    /\ th_sel = [t \in Threads |-> Wildcard]
    /\ th_path = [t \in Threads |-> <<>>]
    /\ th_result = [t \in Threads |-> None]

\* no thread queries an entry graph in this behaviour
ConcParked ==
    /\ th_graph = MapEntry(ConcField, None, <<>>)
    /\ th_graph0 = th_graph
    /\ th_pc = [t \in Threads |-> "parked"]
    /\ th_call = [t \in Threads |-> "none"]
    /\ th_sel = [t \in Threads |-> Wildcard]
    /\ th_path = [t \in Threads |-> <<>>]
    /\ th_result = [t \in Threads |-> None]

-----------------------------------------------------------------------------
(* Building an entry: Entry::new and the setters *)

\* Entry::new(key, entry_type): every field None, no parents
EntryNew(k, t) ==
    [key |-> k, entry_type |-> t, authors |-> None, date |-> None, url |-> None,
     parents |-> <<>>]

\* set_url (faulty variant: the value is stored in the date field)
set_urlIntoDate(e, v) == [e EXCEPT !.date = v]

\* the setters entry!(@set) generates: self.$i = Some($i)
set_authors(e, v) == [e EXCEPT !.authors = v]
set_date(e, v) == [e EXCEPT !.date = v]
set_url(e, v) == [e EXCEPT !.url = v]

\* Entry::set_parents
set_parents(e, ps) == [e EXCEPT !.parents = ps]

\* the values handed to the setters, and the parents handed to set_parents
BuildValues == {"v", "w"}
BuildParents == {EntryNew("k", t) : t \in {"Misc", "Periodical"}}

SetAuthors(v) ==
    /\ bd_last # "parked"
    /\ bd_entry' = set_authors(bd_entry, v)
    /\ bd_last' = "set_authors"
    /\ UNCHANGED <<mapVars, libVars, loadVars, eqVars, selVars, canonVars, concVars, socialVars, andVars, ieeeVars>>

SetDate(v) ==
    /\ bd_last # "parked"
    /\ bd_entry' = set_date(bd_entry, v)
    /\ bd_last' = "set_date"
    /\ UNCHANGED <<mapVars, libVars, loadVars, eqVars, selVars, canonVars, concVars, socialVars, andVars, ieeeVars>>

SetUrl(v) ==
    /\ bd_last # "parked"
    /\ bd_entry' = set_url(bd_entry, v)
    /\ bd_last' = "set_url"
    /\ UNCHANGED <<mapVars, libVars, loadVars, eqVars, selVars, canonVars, concVars, socialVars, andVars, ieeeVars>>

SetParents(ps) ==
    /\ bd_last # "parked"
    /\ bd_entry' = set_parents(bd_entry, ps)
    /\ bd_last' = "set_parents"
    /\ UNCHANGED <<mapVars, libVars, loadVars, eqVars, selVars, canonVars, concVars, socialVars, andVars, ieeeVars>>

\* the entry as Entry::new returns it
BuildInit ==
    /\ bd_entry \in {EntryNew(k, t) : k \in Keys, t \in {"Misc", "Post"}}
    /\ bd_last = "new"

\* no entry is built in this behaviour
BuildParked ==
    /\ bd_entry = EntryNew("k", "Misc")
    /\ bd_last = "parked"

-----------------------------------------------------------------------------
(* Entry::social_handle *)

MaxAuthors == 2

\* a String is the sequence of its characters
StartsWith(str, c) == Len(str) > 0 /\ str[1] = c

\* format!("@{}", str)
FormatAt(str) == <<"@">> \o str

\* Option<String>
NoString == [some |-> FALSE, str |-> <<>>]
SomeString(str) == [some |-> TRUE, str |-> str]

\* the outcomes of a call: a returned Option<String>, or a panic
Returned(opt) == [st |-> IF opt.some THEN "Some" ELSE "None", handle |-> opt.str]
Panicked == [st |-> "panic", handle |-> <<>>]

\* the handle made of an alias (faulty variant: '@' is put in front of every
\* alias)
HandleOfAliasAlwaysAt(alias) == SomeString(FormatAt(alias))

\* the handle made of an alias: unchanged when it starts with '@', else with
\* '@' in front
HandleOfAlias(alias) ==
    IF StartsWith(alias, "@") THEN SomeString(alias) ELSE SomeString(FormatAt(alias))

\* Person: only the alias matters here
Person(alias) == [alias |-> alias]

\* Option<Vec<Person>> and `self.authors.as_deref().unwrap_or_default()`
NoAuthors == [some |-> FALSE, list |-> <<>>]
SomeAuthors(list) == [some |-> TRUE, list |-> list]
UnwrapOrDefault(authors) == IF authors.some THEN authors.list ELSE <<>>

\* Option<QualifiedUrl>: the host (a domain name, or "" for none) and the
\* path segments (none for a URL that cannot be a base)
NoUrl == [some |-> FALSE, host |-> "", segments |-> NoString]
SomeUrl(host, segments) == [some |-> TRUE, host |-> host, segments |-> segments]

\* the handle taken from the URL of the entry
HandleOfUrl(url) ==
    IF ~url.some THEN NoString
    ELSE IF url.host \notin {"twitter.com", "x.com"} THEN NoString
    ELSE IF url.segments.some THEN SomeString(FormatAt(url.segments.str))
    ELSE NoString

\* Entry::social_handle(user_index)
social_handle(e, user_index) ==
    IF e.entry_type # "Post" THEN Returned(NoString)
    ELSE LET authors == UnwrapOrDefault(e.authors) IN
         IF user_index > 0 /\ user_index >= Len(authors) THEN Returned(NoString)
         ELSE IF user_index >= Len(authors) THEN Panicked
         ELSE IF authors[user_index + 1].alias.some
         THEN Returned(HandleOfAlias(authors[user_index + 1].alias.str))
         ELSE IF user_index = 0 THEN Returned(HandleOfUrl(e.url))
         ELSE Returned(NoString)

\* the entries social_handle is called on
SocialAliases == {NoString, SomeString(<<>>), SomeString(<<"a">>), SomeString(<<"@", "a">>)}
SocialAuthors ==
    {NoAuthors} \cup {SomeAuthors(l) : l \in SeqsUpTo({Person(a) : a \in SocialAliases}, MaxAuthors)}
SocialUrls ==
    {NoUrl, SomeUrl("", NoString)}
    \cup {SomeUrl(h, SomeString(seg)) :
            h \in {"twitter.com", "x.com", "example.org"},
            seg \in {<<>>, <<"u">>, <<"@", "u">>}}
SocialEntries ==
    [entry_type : {"Post", "Misc"}, authors : SocialAuthors, url : SocialUrls]

SocialNotCalled == [st |-> "unset", handle |-> <<>>]

\* entry.social_handle(sh_index)
CallSocialHandle ==
    /\ sh_result = SocialNotCalled
    /\ sh_result' = social_handle(sh_entry, sh_index)
    /\ UNCHANGED <<sh_entry, sh_index>>
    /\ UNCHANGED <<mapVars, libVars, loadVars, eqVars, selVars, canonVars, concVars, buildVars, andVars, ieeeVars>>

SocialInit ==
    /\ sh_entry \in SocialEntries
    /\ sh_index \in 0..MaxAuthors
    /\ sh_result = SocialNotCalled

\* social_handle is not called in this behaviour
SocialParked ==
    /\ sh_entry = [entry_type |-> "Misc", authors |-> NoAuthors, url |-> NoUrl]
    /\ sh_index = 0
    /\ sh_result = [st |-> "parked", handle |-> <<>>]

-----------------------------------------------------------------------------
(* IeeeBibliographyGenerator::and_list *)

MaxNames == 7

\* IeeeBibliographyGenerator::new: et_al_threshold: Some(6)
et_al_threshold == 6

\* the names handed to and_list
NameSet == {"A", "B"}

\* One iteration of the for loop (faulty variant: "and " is never appended)
AndListBodyNoAnd(names, index, res) ==
    IF et_al_threshold > 0 /\ index > 1 /\ Len(names) >= et_al_threshold
    THEN [pc |-> "after", res |-> res, index |-> index]
    ELSE [pc |-> "loop", index |-> index + 1,
          res |-> res \o <<names[index + 1]>>
                      \o (IF index <= Len(names) - 2 THEN <<", ">> ELSE <<>>)]

\* One iteration of the for loop of and_list: break behind the second name
\* of a long list, else append the name and what follows it
AndListBody(names, index, res) ==
    IF et_al_threshold > 0 /\ index > 1 /\ Len(names) >= et_al_threshold
    THEN [pc |-> "after", res |-> res, index |-> index]
    ELSE [pc |-> "loop", index |-> index + 1,
          res |-> res \o <<names[index + 1]>>
                      \o (IF index <= Len(names) - 2 THEN <<", ">> ELSE <<>>)
                      \o (IF index = Len(names) - 2 THEN <<"and ">> ELSE <<>>)]

\* and_list(names) is called
CallAndList ==
    /\ al_pc = "idle"
    /\ al_pc' = "loop"
    /\ al_index' = 0
    /\ al_res' = <<>>
    /\ UNCHANGED al_names
    /\ UNCHANGED <<mapVars, libVars, loadVars, eqVars, selVars, canonVars, concVars, buildVars, socialVars, ieeeVars>>

\* the next name is taken from the iterator
AndListIter ==
    /\ al_pc = "loop"
    /\ al_index < Len(al_names)
    /\ LET b == AndListBody(al_names, al_index, al_res) IN
        /\ al_pc' = b.pc
        /\ al_index' = b.index
        /\ al_res' = b.res
    /\ UNCHANGED al_names
    /\ UNCHANGED <<mapVars, libVars, loadVars, eqVars, selVars, canonVars, concVars, buildVars, socialVars, ieeeVars>>

\* behind the loop: "et al." for a long list, and return
AndListFinish ==
    /\ \/ al_pc = "after"
       \/ al_pc = "loop" /\ al_index = Len(al_names)
    /\ al_pc' = "done"
    /\ al_res' = IF et_al_threshold > 0 /\ Len(al_names) >= et_al_threshold
                 THEN al_res \o <<"et al.">> ELSE al_res
    /\ UNCHANGED <<al_names, al_index>>
    /\ UNCHANGED <<mapVars, libVars, loadVars, eqVars, selVars, canonVars, concVars, buildVars, socialVars, ieeeVars>>

AndInit ==
    /\ al_names \in SeqsUpTo(NameSet, MaxNames)
    /\ al_pc = "idle"
    /\ al_index = 0
    /\ al_res = <<>>

\* and_list is not called in this behaviour
AndParked ==
    /\ al_names = <<>>
    /\ al_pc = "parked"
    /\ al_index = 0
    /\ al_res = <<>>

-----------------------------------------------------------------------------
(* The IEEE generator: get_title_element and get_addons *)

\* an Entry as the generator reads it: `present` holds the serialized names
\* of the fields that are set, apart from date and url
IeeeEntry(t, d, u, present, ps) ==
    [key |-> "k", entry_type |-> t, authors |-> None, date |-> d, url |-> u,
     parents |-> ps, present |-> present]

\* the getters get_<field>(): Ok exactly when the field is set
Ok(e, fld) == fld \in e.present

\* `parent.unwrap_or(entry)` over get_canonical_parent
Canonical(e) ==
    LET parent == get_canonical_parent(e)
    IN IF parent.found THEN parent.parent ELSE e

\* the parent a check located: get_parents_ref().unwrap().get(r[0]).unwrap()
ParentAt(e, r) == e.parents[r.pos[1] + 1]

\* "(in <language>) " when the entry or the canonical entry has a language
TitleLanguage(e, canonical) ==
    IF Ok(e, "language") \/ Ok(canonical, "language")
    THEN <<"(in ", "language", ") ">> ELSE <<>>

\* the series of an Anthology in parentheses
TitleSeries(canonical) ==
    LET r == check_with_spec(canonical,
                 single_parent(Specific("Anthology"), Specific("Anthology")))
    IN IF r.ok /\ Ok(ParentAt(canonical, r), "title")
       THEN <<" (", "TC(series.title)">>
            \o (IF Ok(ParentAt(canonical, r), "issue") THEN <<", no. ", "series.issue">> ELSE <<>>)
            \o <<")">>
       ELSE <<>>

\* the conference series of a Proceedings
TitleConferenceSeries(canonical) ==
    LET r == check_with_spec(canonical,
                 single_parent(Specific("Proceedings"),
                               Alternate({"Proceedings", "Anthology", "Misc"})))
    IN IF r.ok /\ Ok(ParentAt(canonical, r), "title")
       THEN <<" in ", "TC(conference.title)">> ELSE <<>>

\* the branch `entry != canonical` of get_title_element
TitleWithCanonical(e, canonical) ==
    LET conf == canonical.entry_type = "Conference"
        first == IF Ok(e, "title")
                 THEN (IF conf THEN <<"SC(entry.title)", ".">>
                       ELSE <<"(open quote)", "SC(entry.title)", ",(close quote)">>)
                      \o (IF Ok(canonical, "title") THEN <<" ">> ELSE <<>>)
                 ELSE <<>>
        second == IF ~Ok(canonical, "title") THEN <<>>
                  ELSE IF conf THEN <<"Presented at ", "abbr(TC(canonical.title))">>
                  ELSE TitleLanguage(e, canonical)
                       \o (IF e.entry_type # "Article" \/ canonical.entry_type # "Periodical"
                           THEN <<"in ">> ELSE <<>>)
                       \o <<"<i>", "abbr(TC(canonical.title))", "</i>">>
                       \o TitleSeries(canonical)
                       \o TitleConferenceSeries(canonical)
    IN first \o second

ItalicTypes ==
    {"Legislation", "Repository", "Video", "Reference", "Book", "Proceedings", "Anthology"}

\* the branches of get_title_element without a canonical parent
TitleAlone(e) ==
    IF e.entry_type \in ItalicTypes
    THEN LET sn == IF e.entry_type = "Legislation" /\ Ok(e, "serial-number")
                   THEN <<"entry.serial-number">> ELSE <<>>
         IN <<"<i>">> \o sn
            \o (IF Ok(e, "title")
                THEN (IF sn # <<>> THEN <<", ">> ELSE <<>>) \o <<"TC(entry.title)">>
                ELSE <<>>)
            \o <<"</i>">>
    ELSE IF Ok(e, "title") THEN <<"(open quote)", "SC(entry.title)", ",(close quote)">> ELSE <<>>

\* get_title_element(entry): the pieces of the DisplayString
get_title_element(e) ==
    LET canonical == Canonical(e)
    IN IF e # canonical THEN TitleWithCanonical(e, canonical) ELSE TitleAlone(e)

\* IeeeBibliographyGenerator::show_url
show_url(e) == url_any(e) # None

\* an item is pushed when cond holds: each item is the sequence of its pieces
Opt(cond, item) == IF cond THEN <<item>> ELSE <<>>

\* a date pushed as month (with day) and year: two items, or the year alone;
\* the dates of the model are "y", "ym" and "ymd"
DateItems(d) ==
    IF d = None THEN <<>>
    ELSE Opt(d \in {"ym", "ymd"}, <<IF d = "ymd" THEN "month day+1" ELSE "month">>)
         \o << <<"year">> >>

\* a date formatted into one String
DateString(d) ==
    CASE d = "ymd" -> <<"month day+1, ", "year">>
      [] d = "ym" -> <<"month ", "year">>
      [] OTHER -> <<"year">>

\* the edition of the canonical entry ("edition" stands for an edition that
\* is a string or a number above 1; a number up to 1 is not shown)
EditionItems(c) == Opt(Ok(c, "edition"), <<"edition(canonical)">>)

\* and_list of the editors with ", Ed." or ", Eds."
EditorsItem(who) == <<"and_list(editors(" \o who \o "))", ", Ed(s).">>

\* location, publisher and language in one String
PublisherItem(e, c) ==
    (IF Ok(c, "location") THEN <<"location(canonical)", ": ">> ELSE <<>>)
    \o <<IF Ok(c, "publisher") THEN "publisher(canonical)" ELSE "organization(canonical)">>
    \o (IF Ok(e, "language") \/ Ok(c, "language") THEN <<" (in ", "language", ")">> ELSE <<>>)

\* (_, Conference) | (_, Proceedings)
AddonsProceedings(e, c) ==
    (IF c.entry_type = "Proceedings"
     THEN Opt(Ok(c, "editor"), EditorsItem("canonical"))
          \o Opt(Ok(e, "volume") \/ Ok(c, "volume"),
                 <<"vol. ", IF Ok(e, "volume") THEN "volume(entry)" ELSE "volume(canonical)">>)
          \o EditionItems(c)
     ELSE <<>>)
    \o Opt(Ok(c, "location"), <<"location(canonical)">>)
    \o DateItems(date_any(e))
    \o (IF c.entry_type = "Conference"
        THEN Opt(Ok(e, "serial-number"), <<"Paper ", "serial-number(entry)">>)
        ELSE Opt(Ok(e, "page-range"), <<"pp. ", "page-range(entry)">>)
             \o Opt(Ok(e, "doi"), <<"doi: ", "doi(entry)">>))

\* (_, Reference)
AddonsReference(e, c) ==
    EditionItems(c)
    \o (IF ~show_url(e)
        THEN (IF Ok(c, "organization") \/ Ok(c, "publisher")
              THEN << <<IF Ok(c, "organization") THEN "organization(canonical)"
                        ELSE "publisher(canonical)">> >>
                   \o Opt(Ok(c, "location"), <<"location(canonical)">>)
              ELSE <<>>)
             \o Opt(date_any(e) # None, DateString(date_any(e)))
             \o Opt(Ok(e, "page-range"), <<"pp. ", "page-range(entry)">>)
        ELSE Opt(date_any(e) # None, <<"(">> \o DateString(date_any(e)) \o <<")">>))

\* (_, Repository)
AddonsRepository(e, c) ==
    (IF Ok(c, "serial-number") THEN << <<"(version ", "serial-number(canonical)", ")">> >>
     ELSE Opt(c.date # None \/ date_any(e) # None, <<"(", "year", ")">>))
    \o Opt(Ok(c, "publisher") \/ Ok(c, "organization"), PublisherItem(e, c))

\* (_, Video)
AddonsVideo(e, c) == Opt(c.date # None \/ date_any(e) # None, <<"(", "year", ")">>)

\* (_, Patent)
AddonsPatent(e, c) ==
    LET start == (IF Ok(c, "location") THEN <<"location(canonical)", " ">> ELSE <<>>)
                 \o <<"Patent">>
                 \o (IF Ok(c, "serial-number") THEN <<" ", "serial-number(canonical)">> ELSE <<>>)
        d == date_any(e)
    IN IF show_url(e)
       THEN << (IF d # None
                THEN <<"(", "year">>
                     \o (IF d \in {"ym", "ymd"}
                         THEN <<", ", IF d = "ymd" THEN "month day+1" ELSE "month">> ELSE <<>>)
                     \o <<"). ">>
                ELSE <<>>) \o start >>
       ELSE <<start>> \o DateItems(d)

\* (_, Periodical) (faulty variant: the "Art. no." item is pushed whether or
\* not a page range was)
AddonsPeriodicalAlwaysArtNo(e, c) ==
    Opt(Ok(c, "volume"), <<"vol. ", "volume(canonical)">>)
    \o Opt(Ok(c, "issue"), <<"no. ", "issue(canonical)">>)
    \o Opt(Ok(e, "page-range"), <<"pp. ", "page-range(entry)">>)
    \o DateItems(date_any(e))
    \o Opt(Ok(e, "serial-number"), <<"Art. no. ", "serial-number(entry)">>)
    \o Opt(Ok(e, "doi"), <<"doi: ", "doi(entry)">>)

\* (_, Periodical)
AddonsPeriodical(e, c) ==
    Opt(Ok(c, "volume"), <<"vol. ", "volume(canonical)">>)
    \o Opt(Ok(c, "issue"), <<"no. ", "issue(canonical)">>)
    \o Opt(Ok(e, "page-range"), <<"pp. ", "page-range(entry)">>)
    \o DateItems(date_any(e))
    \o Opt(~Ok(e, "page-range") /\ Ok(e, "serial-number"),
           <<"Art. no. ", "serial-number(entry)">>)
    \o Opt(Ok(e, "doi"), <<"doi: ", "doi(entry)">>)

\* (_, Report)
AddonsReport(e, c) ==
    LET date == Opt(date_any(e) # None, DateString(date_any(e)))
    IN (IF Ok(c, "organization") \/ Ok(c, "publisher")
        THEN << <<IF Ok(c, "organization") THEN "organization(canonical)"
                  ELSE "publisher(canonical)">> >>
             \o Opt(Ok(c, "location"), <<"location(canonical)">>)
        ELSE <<>>)
       \o Opt(Ok(c, "serial-number"), <<"Rep. ", "serial-number(canonical)">>)
       \o (IF ~show_url(e) THEN date ELSE <<>>)
       \o Opt(Ok(c, "volume") \/ Ok(e, "volume"),
              <<"vol. ", IF Ok(c, "volume") THEN "volume(canonical)" ELSE "volume(entry)">>)
       \o Opt(Ok(c, "issue"), <<"no. ", "issue(canonical)">>)
       \o (IF show_url(e) THEN date ELSE <<>>)

\* (_, Thesis)
AddonsThesis(e, c) ==
    << <<"Thesis">> >>
    \o (IF Ok(c, "organization")
        THEN << <<"abbr(organization(canonical))">> >>
             \o Opt(Ok(c, "location"), <<"location(canonical)">>)
        ELSE <<>>)
    \o Opt(Ok(e, "serial-number"), <<"serial-number(entry)">>)
    \o Opt(date_any(e) # None, <<"year">>)

\* _ if preprint.is_ok(): the serial number with its "arXiv: " prefix and
\* archive, then the date ("serial-number~arxiv" and "title=arxiv" stand for
\* the outcomes of the string tests; the url host of the model is not
\* arxiv.org)
AddonsPreprint(e, parent) ==
    Opt(Ok(e, "serial-number"),
        (IF /\ url_any(e) # None
            /\ ~Ok(e, "serial-number~arxiv")
            /\ Ok(parent, "title=arxiv")
         THEN <<"arXiv: ">> ELSE <<>>)
        \o <<"serial-number(entry)">>
        \o (IF Ok(e, "archive") \/ Ok(parent, "archive") THEN <<" [", "archive", "]">>
            ELSE <<>>))
    \o DateItems(date_any(e))

\* (WebItem, _) | (Blog, _)
AddonsWeb(e) ==
    Opt(Ok(e, "publisher") \/ Ok(e, "organization"),
        <<IF Ok(e, "publisher") THEN "publisher(entry)" ELSE "organization(entry)">>)

\* _ if web_parented.is_ok(): the first of the parent's title, the parent's
\* publisher, the entry's publisher, the parent's organization and the
\* entry's organization
AddonsWebParented(e, parent) ==
    Opt(\/ Ok(parent, "title") \/ Ok(parent, "publisher") \/ Ok(e, "publisher")
        \/ Ok(parent, "organization") \/ Ok(e, "organization"),
        <<CASE Ok(parent, "title") -> "title(parent)"
            [] Ok(parent, "publisher") -> "publisher(parent)"
            [] Ok(e, "publisher") -> "publisher(entry)"
            [] Ok(parent, "organization") -> "organization(parent)"
            [] OTHER -> "organization(entry)">>)

\* Option<u32> of chapter and section
NoNumber == "none"

\* the default arm
AddonsDefault(e, c, chapter, section) ==
    Opt(Ok(e, "author") /\ (Ok(e, "editor") \/ Ok(c, "editor")),
        EditorsItem(IF Ok(e, "editor") THEN "entry" ELSE "canonical"))
    \o Opt(Ok(e, "volume") \/ Ok(c, "volume"),
           <<"vol. ", IF Ok(e, "volume") THEN "volume(entry)" ELSE "volume(canonical)">>)
    \o EditionItems(c)
    \o Opt(Ok(c, "publisher") \/ Ok(c, "organization"), PublisherItem(e, c))
    \o Opt(date_any(c) # None, <<"year">>)
    \o Opt(chapter # NoNumber, <<"ch. ", chapter>>)
    \o Opt(section # NoNumber, <<"sec. ", section>>)
    \o Opt(Ok(e, "page-range"), <<"pp. ", "page-range(entry)">>)

\* the outcome of get_addons: the Vec<String> returned, or a panic
AddonsOk(items) == [st |-> "ok", items |-> items]
AddonsPanic == [st |-> "panic", items |-> <<>>]

\* the canonical types with a match arm of their own
TypedArms == {"Conference", "Proceedings", "Reference", "Repository", "Video",
              "Patent", "Periodical", "Report", "Thesis", "Legislation",
              "Manuscript"}

\* the arms (_, <type>) of the match, in the order of the source
AddonsByType(e, c) ==
    CASE c.entry_type \in {"Conference", "Proceedings"} -> AddonsProceedings(e, c)
      [] c.entry_type = "Reference" -> AddonsReference(e, c)
      [] c.entry_type = "Repository" -> AddonsRepository(e, c)
      [] c.entry_type = "Video" -> AddonsVideo(e, c)
      [] c.entry_type = "Patent" -> AddonsPatent(e, c)
      [] c.entry_type = "Periodical" -> AddonsPeriodical(e, c)
      [] c.entry_type = "Report" -> AddonsReport(e, c)
      [] c.entry_type = "Thesis" -> AddonsThesis(e, c)
      [] c.entry_type = "Legislation" -> <<>>
      [] c.entry_type = "Manuscript" -> << <<"unpublished">> >>

\* an arm that starts with r.unwrap(): it panics on an Err, and pushes its
\* items otherwise
Unwrapped(r, items) == IF r.ok THEN AddonsOk(items) ELSE AddonsPanic

\* get_addons(entry, canonical, chapter, section): both guarded arms fetch the
\* parent at preprint.unwrap()[0]
get_addons(e, c, chapter, section) ==
    LET preprint == check_with_spec(e,
            single_parent(Alternate({"Article", "Book", "InAnthology"}),
                          Specific("Repository")))
        web_parented == check_with_spec(e,
            single_parent(AnyType, Alternate({"Blog", "WebItem"})))
    IN IF c.entry_type \in TypedArms THEN AddonsOk(AddonsByType(e, c))
       ELSE IF preprint.ok THEN Unwrapped(preprint, AddonsPreprint(e, ParentAt(e, preprint)))
       ELSE IF e.entry_type \in {"WebItem", "Blog"} THEN AddonsOk(AddonsWeb(e))
       ELSE IF web_parented.ok
            THEN Unwrapped(preprint, AddonsWebParented(e, ParentAt(e, preprint)))
       ELSE AddonsOk(AddonsDefault(e, c, chapter, section))

\* the entries the generator is run on
IeeeTypes == {"Article", "Misc", "Chapter", "Book", "Manuscript", "Legislation",
              "Thesis", "Report", "Periodical"}
IeeeFields == {"title", "serial-number", "page-range"}
IeeeDates == {None, "ymd"}
IeeeUrls == {None, "v"}
IeeeParents ==
    {IeeeEntry("Conference", None, None, {"title"}, <<>>),
     IeeeEntry("Periodical", None, None, {"title", "volume", "issue"}, <<>>),
     IeeeEntry("Repository", None, None, {"title=arxiv"}, <<>>),
     IeeeEntry("Blog", None, None, {"title"}, <<>>),
     IeeeEntry("Report", "y", None, {"serial-number", "volume"}, <<>>)}
IeeeEntries ==
    {IeeeEntry(t, d, u, present, ps) :
        t \in IeeeTypes, d \in IeeeDates, u \in IeeeUrls,
        present \in SUBSET IeeeFields, ps \in SeqsUpTo(IeeeParents, MaxParents)}
IeeeNumbers == {NoNumber, "1"}

TitleNotCalled == <<"not called">>
AddonsNotCalled == [st |-> "not called", items |-> <<>>]

\* self.get_title_element(entry, canonical)
CallGetTitleElement ==
    /\ ie_title = TitleNotCalled
    /\ ie_title' = get_title_element(ie_entry)
    /\ UNCHANGED <<ie_entry, ie_addons>>
    /\ UNCHANGED <<mapVars, libVars, loadVars, eqVars, selVars, canonVars, concVars,
                   buildVars, socialVars, andVars>>

\* self.get_addons(entry, canonical, chapter, section), canonical being
\* get_canonical_parent(entry).unwrap_or(entry)
CallGetAddons ==
    /\ ie_addons = AddonsNotCalled
    /\ \E chapter \in IeeeNumbers, section \in IeeeNumbers :
           ie_addons' = get_addons(ie_entry, Canonical(ie_entry), chapter, section)
    /\ UNCHANGED <<ie_entry, ie_title>>
    /\ UNCHANGED <<mapVars, libVars, loadVars, eqVars, selVars, canonVars, concVars,
                   buildVars, socialVars, andVars>>

IeeeInit ==
    /\ ie_entry \in IeeeEntries
    /\ ie_title = TitleNotCalled
    /\ ie_addons = AddonsNotCalled

IeeeParked ==
    /\ ie_entry = IeeeEntry("Misc", None, None, {}, <<>>)
    /\ ie_title = <<"parked">>
    /\ ie_addons = [st |-> "parked", items |-> <<>>]

-----------------------------------------------------------------------------
(* Specifications *)

MapNext == CallMap \/ CallMapParents \/ LoopIter

\* calls of map and map_parents on one entry graph
SpecMapInit == MapInit /\ LibParked /\ LoadParked /\ EqParked /\ SelParked
    /\ CanonParked /\ ConcParked /\ BuildParked /\ SocialParked /\ AndParked /\ IeeeParked

SpecMap == SpecMapInit /\ [][MapNext]_vars

\* the same calls, run by a thread that keeps executing the loop it is in
SpecMapLive == SpecMapInit /\ [][MapNext]_vars /\ WF_vars(LoopIter)

LibNext == (\E e \in LibEntries : Push(e)) \/ (\E k \in Keys : Remove(k))

\* a library under any sequence of push and remove
SpecLibInit == LibInit /\ MapParked /\ LoadParked /\ EqParked /\ SelParked
    /\ CanonParked /\ ConcParked /\ BuildParked /\ SocialParked /\ AndParked /\ IeeeParked

SpecLib == SpecLibInit /\ [][LibNext]_vars

LoadNext == LoadStart \/ LoadReadKey \/ LoadFinish

\* one load of a serialized library
SpecLoadInit == LoadInit /\ MapParked /\ LibParked /\ EqParked /\ SelParked
    /\ CanonParked /\ ConcParked /\ BuildParked /\ SocialParked /\ AndParked /\ IeeeParked

SpecLoad == SpecLoadInit /\ [][LoadNext]_vars

EqNext == Compare

\* one comparison of two entries
SpecEqInit == EqInit /\ MapParked /\ LibParked /\ LoadParked /\ SelParked
    /\ CanonParked /\ ConcParked /\ BuildParked /\ SocialParked /\ AndParked /\ IeeeParked

SpecEq == SpecEqInit /\ [][EqNext]_vars

SelNext == DoApply \/ DoMatches

\* one selector queried on one entry
SpecSelInit == SelInit /\ MapParked /\ LibParked /\ LoadParked /\ EqParked
    /\ CanonParked /\ ConcParked /\ BuildParked /\ SocialParked /\ AndParked /\ IeeeParked

SpecSel == SpecSelInit /\ [][SelNext]_vars

CanonNext == DoCheckWithSpec \/ DoGetCanonicalParent

\* check_with_spec and get_canonical_parent on one entry
SpecCanonInit == CanonInit /\ MapParked /\ LibParked /\ LoadParked /\ EqParked
    /\ SelParked /\ ConcParked /\ BuildParked /\ SocialParked /\ AndParked /\ IeeeParked

SpecCanon == SpecCanonInit /\ [][CanonNext]_vars

BuildNext ==
    \/ \E v \in BuildValues : SetAuthors(v) \/ SetDate(v) \/ SetUrl(v)
    \/ \E ps \in SeqsUpTo(BuildParents, MaxParents) : SetParents(ps)

\* an entry made by Entry::new and changed through its setters
SpecBuildInit == BuildInit /\ MapParked /\ LibParked /\ LoadParked /\ EqParked
    /\ SelParked /\ CanonParked /\ ConcParked /\ SocialParked /\ AndParked /\ IeeeParked

SpecBuild == SpecBuildInit /\ [][BuildNext]_vars

SocialNext == CallSocialHandle

\* one call of social_handle on one entry
SpecSocialInit == SocialInit /\ MapParked /\ LibParked /\ LoadParked /\ EqParked
    /\ SelParked /\ CanonParked /\ ConcParked /\ BuildParked /\ AndParked /\ IeeeParked

SpecSocial == SpecSocialInit /\ [][SocialNext]_vars

AndNext == CallAndList \/ AndListIter \/ AndListFinish

\* one call of and_list
SpecAndInit == AndInit /\ MapParked /\ LibParked /\ LoadParked /\ EqParked
    /\ SelParked /\ CanonParked /\ ConcParked /\ BuildParked /\ SocialParked /\ IeeeParked

SpecAnd == SpecAndInit /\ [][AndNext]_vars

IeeeNext == CallGetTitleElement \/ CallGetAddons

\* the title element and the addons of one entry
SpecIeeeInit == IeeeInit /\ MapParked /\ LibParked /\ LoadParked /\ EqParked
    /\ SelParked /\ CanonParked /\ ConcParked /\ BuildParked /\ SocialParked /\ AndParked

SpecIeee == SpecIeeeInit /\ [][IeeeNext]_vars

ConcNext ==
    \E t \in Threads :
        \/ ThCallMap(t)
        \/ ThCallMapParents(t)
        \/ ThLoopIter(t)
        \/ \E s \in ConcSelectors : ThApply(t, s)
        \/ \E s \in ConcSelectors : ThMatches(t, s)
        \/ ThReturn(t)

\* threads querying one shared entry graph, their steps interleaved
SpecConcInit == ConcInit /\ MapParked /\ LibParked /\ LoadParked /\ EqParked
    /\ SelParked /\ CanonParked /\ BuildParked /\ SocialParked /\ AndParked /\ IeeeParked

SpecConc == SpecConcInit /\ [][ConcNext]_vars

-----------------------------------------------------------------------------
(* Properties of Entry::map and Entry::map_parents *)

\* some proper ancestor of e, at any depth, has the field
RECURSIVE AnyAncestorHas(_, _)
AnyAncestorHas(fld, e) ==
    \E i \in 1..Len(e.parents) :
        F(fld, e.parents[i]) # None \/ AnyAncestorHas(fld, e.parents[i])

\* the positions (1-based) of the direct parents of e that have the field
DirectHits(fld, e) == {i \in 1..Len(e.parents) : F(fld, e.parents[i]) # None}

\* the least element of a non-empty set of numbers
Least(S) == CHOOSE m \in S : \A n \in S : m <= n

MapParentsDone == mp_mode = "map_parents" /\ mp_pc = "done"
MapDone == mp_mode = "map" /\ mp_pc = "done"

\* C2: map_parents returns None only when no proper ancestor, at any depth,
\* yields a value: a None result means the whole ancestor graph has none.
C2_NoneOnlyWhenNoAncestorHas ==
    (MapParentsDone /\ mp_result = None) => ~AnyAncestorHas(mp_fld, mp_entry)

\* C3: map returns f(self) when that is Some, having probed nothing but self,
\* and otherwise returns exactly what map_parents returns.
C3_MapPrefersSelf ==
    MapDone =>
        IF F(mp_fld, mp_entry) # None
        THEN mp_result = F(mp_fld, mp_entry) /\ mp_probed = << <<>> >>
        ELSE mp_result = RunMapParents(mp_fld, mp_entry, <<0>>)

\* C3 witness: a finished map call on an entry that has the field itself and
\* whose parent has it too
C3_Witness ==
    /\ MapDone
    /\ F(mp_fld, mp_entry) # None
    /\ DirectHits(mp_fld, mp_entry) # {}

\* C4: map_parents probes the direct parents in declared order and nothing
\* else; the lowest-index direct parent with a value supplies the result, also
\* when a grandparent under an earlier parent has a value.
C4_DirectParentsInOrder ==
    MapParentsDone =>
        LET hits == DirectHits(mp_fld, mp_entry)
            last == IF hits = {} THEN Len(mp_entry.parents) ELSE Least(hits)
        IN /\ mp_probed = [i \in 1..last |-> <<i - 1>>]
           /\ mp_result = IF hits = {} THEN None
                           ELSE F(mp_fld, mp_entry.parents[last])

\* C4 witness: the first parent has no value but its own parent has one, the
\* second parent has a value, and the call returned the second parent's
C4_Witness ==
    /\ MapParentsDone
    /\ Len(mp_entry.parents) >= 2
    /\ F(mp_fld, mp_entry.parents[1]) = None
    /\ DirectHits(mp_fld, mp_entry.parents[1]) # {}
    /\ F(mp_fld, mp_entry.parents[2]) # None
    /\ mp_probed = << <<0>>, <<1>> >>
    /\ mp_result = F(mp_fld, mp_entry.parents[2])

-----------------------------------------------------------------------------
(* Properties of loading *)

\* some key occurs twice in the serialized map
HasDup(input) ==
    \E i, j \in 1..Len(input) : i < j /\ input[i].key = input[j].key

\* C5: a load of a map that holds a key twice ends with the error
\* "duplicate key" and no Library; a load that succeeds holds one entry per
\* pair of the input, under the input's keys.
C5_DuplicateKeyFailsLoad ==
    ld_pc = "done" =>
        /\ HasDup(ld_input) =>
              /\ ~ld_result.ok
              /\ ld_result.err = "duplicate key"
              /\ ld_result.lib = <<>>
        /\ ld_result.ok => KeysOf(ld_result.lib) = [i \in 1..Len(ld_input) |-> ld_input[i].key]

\* C5 witness: a finished load of a map whose repeated key carries two
\* different entries, the first of which has no type
C5_Witness ==
    /\ ld_pc = "done"
    /\ \E i, j \in 1..Len(ld_input) :
          /\ i < j
          /\ ld_input[i].key = ld_input[j].key
          /\ ld_input[i].value # ld_input[j].value
          /\ ld_input[i].value.entry_type = None
    /\ ld_result.err = "duplicate key"

\* some top-level entry of the serialized map has no explicit type
HasUntypedTop(input) ==
    \E i \in 1..Len(input) : input[i].value.entry_type = None

\* the entry e carries the types the serialized entry n resolves to, n
\* being top-level (child = None) or a parent of an entry of type child
RECURSIVE TypesResolved(_, _, _)
TypesResolved(n, e, child) ==
    /\ e.entry_type = IF n.entry_type # None THEN n.entry_type
                      ELSE DefaultParent(child)
    /\ Len(e.parents) = Len(n.parents)
    /\ \A j \in 1..Len(n.parents) :
          TypesResolved(n.parents[j], e.parents[j], e.entry_type)

\* C20: on load an entry's type is its explicit type when given; an untyped
\* parent takes default_parent() of its child's resolved type (the untyped
\* parent of an Article is a Periodical); an untyped top-level entry makes
\* the load fail, with "no entry type" unless a duplicate key was met first;
\* an untyped parent at any depth never makes it fail.
C20_TypesResolvedOnLoad ==
    ld_pc = "done" =>
        /\ HasUntypedTop(ld_input) => ~ld_result.ok
        /\ ~HasDup(ld_input) =>
              /\ HasUntypedTop(ld_input) <=> ~ld_result.ok
              /\ ~ld_result.ok => ld_result.err = NoEntryType.error
        /\ ld_result.ok =>
              \A i \in 1..Len(ld_input) :
                  LET n == ld_input[i].value
                      e == Get(ld_result.lib, ld_input[i].key)
                  IN /\ TypesResolved(n, e, None)
                     /\ \A j \in 1..Len(n.parents) :
                           (n.entry_type = "Article" /\ n.parents[j].entry_type = None)
                               => e.parents[j].entry_type = "Periodical"

\* C20 witness: a load succeeded on an Article whose untyped parent, itself
\* with an untyped parent, became a Periodical, next to an Article whose
\* parent kept its explicit type
C20_Witness ==
    /\ ld_pc = "done"
    /\ ld_result.ok
    /\ Len(ld_result.lib) >= 2
    /\ Len(ld_result.lib[1].value.parents) = 1
    /\ ld_input[1].value.parents[1].entry_type = None
    /\ ld_result.lib[1].value.parents[1].entry_type = "Periodical"
    /\ ld_result.lib[1].value.parents[1].parents[1].entry_type = "Misc"
    /\ Len(ld_result.lib[2].value.parents) = 1
    /\ ld_result.lib[2].value.parents[1].entry_type = "Proceedings"

\* e and all its parents, at every depth, carry the key k
RECURSIVE AllCarryKey(_, _)
AllCarryKey(e, k) ==
    /\ e.key = k
    /\ \A j \in 1..Len(e.parents) : AllCarryKey(e.parents[j], k)

\* C23: a successful load yields a Library that iterates in the order of
\* the keys of the input map, and every nested parent, at any depth, carries
\* the key of the top-level entry it was declared under.
C23_LoadKeepsOrderAndKeys ==
    (ld_pc = "done" /\ ld_result.ok) =>
        /\ Len(ld_result.lib) = Len(ld_input)
        /\ \A i \in 1..Len(ld_input) :
              i <= Len(ld_result.lib) =>
                  /\ Iter(ld_result.lib)[i].key = ld_input[i].key
                  /\ Nth(ld_result.lib, i - 1) = Get(ld_result.lib, ld_input[i].key)
                  /\ AllCarryKey(Iter(ld_result.lib)[i], ld_input[i].key)
                  /\ Len(Iter(ld_result.lib)[i].parents) = Len(ld_input[i].value.parents)

\* C23 witness: a load of three entries whose keys are not in sorted order
\* succeeded, the first entry with a parent that has a parent of its own
C23_Witness ==
    /\ ld_pc = "done"
    /\ ld_result.ok
    /\ KeysOf(ld_result.lib) = <<KeyPool[3], KeyPool[1], KeyPool[2]>>
    /\ Len(ld_result.lib[1].value.parents) = 1
    /\ Len(ld_result.lib[1].value.parents[1].parents) = 1
    /\ ld_result.lib[1].value.parents[1].parents[1].key = KeyPool[3]

-----------------------------------------------------------------------------
(* Properties of the Library *)

\* no key is held twice
UniqueKeys(m) == \A i, j \in 1..Len(m) : m[i].key = m[j].key => i = j

\* C6: keys are unique, and a push of a key that is already present leaves
\* the entry stored under it in place: get(key) is still the entry pushed when
\* the key was absent (push reports no error).
C6_PushNeverOverwrites ==
    /\ UniqueKeys(lib)
    /\ \A k \in Keys : IndexOf(lib, k) # 0 => Get(lib, k) = lib_first[k]

\* C6 as amended: keys are unique, and get(key) is the entry of the latest
\* push of that key: a push of a present key replaces the stored entry.
C6_PushReplaces ==
    /\ UniqueKeys(lib)
    /\ \A k \in Keys : Get(lib, k) = lib_last[k]

\* C6 witness: a key was pushed twice with different entries, next to another key
C6_Witness ==
    /\ Len(lib) >= 2
    /\ \E k \in Keys :
          /\ IndexOf(lib, k) # 0
          /\ lib_first[k] # lib_last[k]
          /\ Get(lib, k) = lib_last[k]

\* C7: iter(), keys() and nth(i) enumerate the live entries in the order in
\* which their keys were inserted, whatever was removed in between.
C7_InsertionOrderKept ==
    /\ KeysOf(lib) = lib_order
    /\ \A i \in 1..Len(lib) :
          /\ i <= Len(lib_order)
          /\ Iter(lib)[i].key = lib_order[i]
          /\ Nth(lib, i - 1).key = lib_order[i]

-----------------------------------------------------------------------------
(* Properties of Entry equality *)

\* a and b have the same type, fields and parents (their own keys aside)
SameButKey(a, b) ==
    /\ a.entry_type = b.entry_type
    /\ a.authors = b.authors
    /\ a.date = b.date
    /\ a.url = b.url
    /\ a.parents = b.parents

Compared == eq_result \in {"equal", "unequal"}

\* C8: two entries compare equal iff their type, fields and parents are
\* equal; entries that differ only in their key compare equal.
C8_EqualityIgnoresKey ==
    Compared => (eq_result = "equal" <=> SameButKey(eq_a, eq_b))

\* C8 as amended: two entries compare equal iff their key, type, fields and
\* parent lists (in order, recursively, keys included) are equal.
C8_EqualityIncludesKey ==
    Compared => (eq_result = "equal" <=> eq_a = eq_b)

\* C8 witness: two entries with parents that differ only in their own key
\* were compared and found unequal
C8_Witness ==
    /\ Compared
    /\ SameButKey(eq_a, eq_b)
    /\ Len(eq_a.parents) >= 1
    /\ eq_a.key # eq_b.key
    /\ eq_result = "unequal"

-----------------------------------------------------------------------------
(* Properties of the selector matcher *)

Applied == sel_res.done
Matched == sel_match \in {"true", "false"}

\* C1: apply returns Some exactly when matches returns true, also when the
\* selector matches and binds no name (Some of an empty map).
C1_ApplySomeIffMatches ==
    (Applied /\ Matched) => (sel_res.some <=> sel_match = "true")

\* C1 witness: both were called on a selector with a negation in it, which
\* matched and bound nothing
C1_Witness ==
    /\ Applied
    /\ Matched
    /\ sel_s = SelNoUrl
    /\ sel_match = "true"
    /\ sel_res.some
    /\ sel_res.b = EmptyBindings

\* the entry has a Conference parent and, at another position, a Video, Blog
\* or Web parent
HasConferenceAndMedia(e) ==
    \E i, j \in 1..Len(e.parents) :
        /\ i # j
        /\ e.parents[i].entry_type = "Conference"
        /\ e.parents[j].entry_type \in {"Video", "Blog", "Web"}

\* C9: `a:article > (b:conference & c:(video|blog|web))` matches an Article
\* with two parents, one a Conference and another a Video, Blog or Web item,
\* and apply binds a to the article, b to a Conference parent and c to a
\* different parent that is a Video, Blog or Web item.
C9_ConjunctionOverDifferentParents ==
    (/\ Applied
     /\ sel_s = SelWwdc
     /\ sel_e.entry_type = "Article"
     /\ Len(sel_e.parents) = 2
     /\ HasConferenceAndMedia(sel_e))
    => /\ sel_res.some
       /\ BoundNames(sel_res.b) = {"a", "b", "c"}
       /\ Bound(sel_res.b, "a") = <<>>
       /\ At(sel_e, Bound(sel_res.b, "b")).entry_type = "Conference"
       /\ At(sel_e, Bound(sel_res.b, "c")).entry_type \in {"Video", "Blog", "Web"}
       /\ Bound(sel_res.b, "b") # Bound(sel_res.b, "c")
       /\ Matched => sel_match = "true"

\* C9 witness: the selector was applied to an Article whose first parent is a
\* Video and whose second parent is a Conference
C9_Witness ==
    /\ Applied
    /\ Matched
    /\ sel_s = SelWwdc
    /\ sel_e.entry_type = "Article"
    /\ Len(sel_e.parents) = 2
    /\ sel_e.parents[1].entry_type = "Video"
    /\ sel_e.parents[2].entry_type = "Conference"
    /\ BoundNames(sel_res.b) = {"a", "b", "c"}

\* every way of merging one element of each set of bindings, in order
RECURSIVE AndSat(_)
AndSat(sets) ==
    IF Len(sets) = 0 THEN {EmptyBindings}
    ELSE {Extend(b, c) : b \in sets[1], c \in AndSat(Tail(sets))}

\* all assignments that satisfy s against the candidates: each holds the
\* captures of the branches that succeed, bound to the entries that satisfy
\* them, and nothing else
RECURSIVE AllSat(_, _, _)
AllSat(s, r, cands) ==
    CASE s.op = "Wildcard" -> IF Len(cands) > 0 THEN {EmptyBindings} ELSE {}
      [] s.op = "Type" ->
            IF \E i \in 1..Len(cands) : At(r, cands[i]).entry_type = s.kind
            THEN {EmptyBindings} ELSE {}
      [] s.op = "AttrFilter" ->
            UNION {IF has(At(r, cands[i]), s.attr)
                   THEN AllSat(s.inner, r, <<cands[i]>>) ELSE {} : i \in 1..Len(cands)}
      [] s.op = "Not" ->
            IF \E i \in 1..Len(cands) : AllSat(s.inner, r, <<cands[i]>>) = {}
            THEN {EmptyBindings} ELSE {}
      [] s.op = "Capture" ->
            UNION {{Bind(b, s.name, cands[i]) : b \in AllSat(s.inner, r, <<cands[i]>>)} :
                   i \in 1..Len(cands)}
      [] s.op = "Or" ->
            UNION {AllSat(s.inners[i], r, cands) : i \in 1..Len(s.inners)}
      [] s.op = "And" ->
            AndSat([i \in 1..Len(s.inners) |-> AllSat(s.inners[i], r, cands)])
      [] s.op = "Parent" ->
            UNION {{Extend(b, c) : b \in AllSat(s.child, r, <<cands[i]>>),
                                   c \in AllSat(s.anc, r, ParentPlaces(r, cands[i]))} :
                   i \in 1..Len(cands)}

\* the Capture nodes of a selector
RECURSIVE Captures(_)
Captures(s) ==
    CASE s.op \in {"Wildcard", "Type"} -> {}
      [] s.op \in {"AttrFilter", "Not"} -> Captures(s.inner)
      [] s.op = "Capture" -> {s} \cup Captures(s.inner)
      [] s.op \in {"Or", "And"} -> UNION {Captures(s.inners[i]) : i \in 1..Len(s.inners)}
      [] s.op = "Parent" -> Captures(s.child) \cup Captures(s.anc)

\* the places of the graph under e: e and its parents
Places(e) == {<<>>} \cup {<<i>> : i \in 1..Len(e.parents)}

\* C10: the map apply returns is a satisfying assignment: it holds no name
\* of a branch that failed, and every name is bound to an entry of the graph
\* that satisfies the sub-selector of a capture of that name.
C10_NoBindingFromFailedBranch ==
    (Applied /\ sel_res.some) =>
        /\ sel_res.b \in AllSat(sel_s, sel_e, << <<>> >>)
        /\ \A x \in sel_res.b :
              /\ x.at \in Places(sel_e)
              /\ \E c \in Captures(sel_s) :
                    c.name = x.name /\ MatchesAny(c.inner, sel_e, <<x.at>>)

\* C10 witness: the first alternative bound x to the Article and then failed;
\* the result holds y alone
C10_Witness ==
    /\ Applied
    /\ sel_s = SelOrAfterFailure
    /\ sel_e.entry_type = "Article"
    /\ Apply(Capture("x", Type("Article")), sel_e).some
    /\ ~Apply(SelFailingAnd, sel_e).some
    /\ sel_res.some
    /\ BoundNames(sel_res.b) = {"y"}

\* anc is matched over the direct parents of e: every operand of a
\* conjunction is, some operand of an alternation is, and any other selector
\* matches at least one direct parent
RECURSIVE MatchedByParents(_, _)
MatchedByParents(anc, e) ==
    CASE anc.op = "And" ->
            \A k \in 1..Len(anc.inners) : MatchedByParents(anc.inners[k], e)
      [] anc.op = "Or" ->
            \E k \in 1..Len(anc.inners) : MatchedByParents(anc.inners[k], e)
      [] OTHER -> \E i \in 1..Len(e.parents) : Matches(anc, e.parents[i])

\* C11: `child > anc` matches an entry exactly when the entry matches child
\* and at least one of its direct parents matches anc.
C11_ParentNeedsOneMatchingParent ==
    (Matched /\ sel_s.op = "Parent") =>
        (sel_match = "true" <=>
            /\ Matches(sel_s.child, sel_e)
            /\ \E i \in 1..Len(sel_e.parents) : Matches(sel_s.anc, sel_e.parents[i]))

\* C11 as amended: `child > anc` matches an entry exactly when the entry
\* matches child and anc is matched over its direct parents, where each
\* operand of a conjunction may be matched by a different parent; and
\* `article > proceedings` matches exactly the Articles with a direct
\* Proceedings parent, at any position.
C11_ParentMatchesOverParents ==
    /\ (Matched /\ sel_s.op = "Parent") =>
          (sel_match = "true" <=>
              Matches(sel_s.child, sel_e) /\ MatchedByParents(sel_s.anc, sel_e))
    /\ (Matched /\ sel_s = SelInProceedings) =>
          (sel_match = "true" <=>
              /\ sel_e.entry_type = "Article"
              /\ \E i \in 1..Len(sel_e.parents) :
                    sel_e.parents[i].entry_type = "Proceedings")
    /\ (Applied /\ sel_s = SelInProceedings) =>
          (sel_res.some <=>
              /\ sel_e.entry_type = "Article"
              /\ \E i \in 1..Len(sel_e.parents) :
                    sel_e.parents[i].entry_type = "Proceedings")

\* C11 witness: `article > proceedings` matched an Article whose second
\* parent is its only Proceedings parent
C11_Witness ==
    /\ Matched
    /\ sel_s = SelInProceedings
    /\ sel_e.entry_type = "Article"
    /\ Len(sel_e.parents) = 2
    /\ sel_e.parents[1].entry_type = "Periodical"
    /\ sel_e.parents[2].entry_type = "Proceedings"
    /\ sel_match = "true"

\* C12: `*[url]` matches exactly the entries with a URL of their own,
\* `!(*[url] | (* > *[url]))` exactly the entries with no URL on themselves
\* nor on any direct parent, and no entry is matched by both.
C12_UrlSelectorsExact ==
    /\ (Matched /\ sel_s = SelUrl) => (sel_match = "true" <=> sel_e.url # None)
    /\ (Matched /\ sel_s = SelNoUrl) =>
          /\ sel_match = "true" <=>
                /\ sel_e.url = None
                /\ \A i \in 1..Len(sel_e.parents) : sel_e.parents[i].url = None
          /\ sel_match = "true" => ~Matches(SelUrl, sel_e)
    /\ (Matched /\ sel_s = SelUrl) => (sel_match = "true" => ~Matches(SelNoUrl, sel_e))

\* C12 witness: the negated selector matched an entry with two parents
C12_Witness ==
    /\ Matched
    /\ sel_s = SelNoUrl
    /\ Len(sel_e.parents) = 2
    /\ sel_match = "true"

\* the positions of the Periodical parents of e
PeriodicalParents(e) ==
    {i \in 1..Len(e.parents) : e.parents[i].entry_type = "Periodical"}

\* C13: on an Article with a date and exactly one Periodical parent,
\* `(Article["date"]) > ("journal":Periodical)` matches and apply binds
\* journal to that parent, not to the article.
C13_JournalBoundToParent ==
    (/\ sel_s = SelJournal
     /\ sel_e.entry_type = "Article"
     /\ sel_e.date # None
     /\ Cardinality(PeriodicalParents(sel_e)) = 1)
    => /\ Matched => sel_match = "true"
       /\ Applied =>
             /\ sel_res.some
             /\ "journal" \in BoundNames(sel_res.b)
             /\ Bound(sel_res.b, "journal") = <<CHOOSE i \in PeriodicalParents(sel_e) : TRUE>>
             /\ Bound(sel_res.b, "journal") # <<>>

\* C13 witness: applied to a dated Article whose Periodical parent is the
\* second of two parents
C13_Witness ==
    /\ Applied
    /\ sel_s = SelJournal
    /\ sel_e.entry_type = "Article"
    /\ sel_e.date # None
    /\ PeriodicalParents(sel_e) = {2}
    /\ Bound(sel_res.b, "journal") = <<2>>

\* C14: `*` matches every entry, whatever its type, fields and parents.
C14_WildcardMatchesAll ==
    sel_s = Wildcard =>
        /\ Matched => sel_match = "true"
        /\ Applied => sel_res.some

\* C14 witness: `*` was run on an entry without parents and without fields
C14_Witness ==
    /\ Matched
    /\ Applied
    /\ sel_s = Wildcard
    /\ sel_e.parents = <<>>
    /\ sel_e.date = None
    /\ sel_e.url = None
    /\ sel_match = "true"

\* s is `!!t`
IsNotNot(s) == s.op = "Not" /\ s.inner.op = "Not"

\* C15: `!!s` matches an entry exactly when s matches it (the bindings may
\* differ).
C15_DoubleNegation ==
    IsNotNot(sel_s) =>
        /\ Matched => (sel_match = "true" <=> Matches(sel_s.inner.inner, sel_e))
        /\ Applied => (sel_res.some <=> Apply(sel_s.inner.inner, sel_e).some)

\* C15 witness: `!!s` was applied where s matches and binds names, and
\* where `!!s` binds none
C15_Witness ==
    /\ Applied
    /\ Matched
    /\ sel_s = Not(Not(SelWwdc))
    /\ sel_match = "true"
    /\ sel_res.b = EmptyBindings
    /\ BoundNames(Apply(SelWwdc, sel_e).b) = {"a", "b", "c"}

\* s is `a | b`; s is `(a | b) | c`
IsOr2(s) == s.op = "Or" /\ Len(s.inners) = 2
IsOr3(s) == IsOr2(s) /\ IsOr2(s.inners[1])

\* `b | a` for `a | b`; `a | (b | c)` for `(a | b) | c`
Swapped(s) == Or(<<s.inners[2], s.inners[1]>>)
Regrouped(s) ==
    Or(<<s.inners[1].inners[1], Or(<<s.inners[1].inners[2], s.inners[2]>>)>>)

\* C16: `a | b` matches exactly when `b | a` does, and `(a | b) | c`
\* exactly when `a | (b | c)` does.
C16_OrCommutesAndAssociates ==
    /\ IsOr2(sel_s) =>
          /\ Matched => (sel_match = "true" <=> Matches(Swapped(sel_s), sel_e))
          /\ Applied => (sel_res.some <=> Apply(Swapped(sel_s), sel_e).some)
    /\ IsOr3(sel_s) =>
          /\ Matched => (sel_match = "true" <=> Matches(Regrouped(sel_s), sel_e))
          /\ Applied => (sel_res.some <=> Apply(Regrouped(sel_s), sel_e).some)

\* C16 witness: `(a | b) | c` with a parent relation and captures matched
\* through its last operand only
C16_Witness ==
    /\ Applied
    /\ Matched
    /\ IsOr3(sel_s)
    /\ sel_s.inners[1].inners[1].op = "Parent"
    /\ sel_s.inners[1].inners[2].op = "Capture"
    /\ ~Matches(sel_s.inners[1], sel_e)
    /\ sel_match = "true"

\* the places f was called on are pairwise different
ProbedOnce ==
    \A i, j \in 1..Len(mp_probed) : i # j => mp_probed[i] # mp_probed[j]

\* a loop iteration returns, or moves the traversal position forward
IterAdvances ==
    LoopIter =>
        \/ mp_pc' = "done"
        \/ /\ Len(mp_path') = Len(mp_path)
           /\ mp_path'[1] = mp_path[1] + 1

\* C21: map_parents terminates on every finite parent graph: each loop
\* iteration returns or strictly advances the traversal position, f is
\* called at most once per visited ancestor and never on the entry itself.
C21_MapParentsTerminates ==
    /\ [](ProbedOnce)
    /\ [](mp_mode = "map_parents" => \A i \in 1..Len(mp_probed) : mp_probed[i] # <<>>)
    /\ [][IterAdvances]_vars
    /\ (mp_pc = "loop" ~> mp_pc = "done")

\* C21 witness: map_parents went through two parents without a value and
\* returned None at the end of the parent list
C21_Witness ==
    /\ MapParentsDone
    /\ Len(mp_entry.parents) = 2
    /\ mp_probed = << <<0>>, <<1>> >>
    /\ mp_path = <<2>>
    /\ mp_result = None

(* Properties of Entry::date_any and Entry::url_any *)

\* C17: date_any and url_any (map over the date, the url) return a value
\* whenever the entry or any ancestor at any depth has the field; they
\* return None only when neither the entry nor any ancestor has it.
C17_AnyReachesEveryDepth ==
    MapDone =>
        (mp_result = None <=>
            /\ F(mp_fld, mp_entry) = None
            /\ ~AnyAncestorHas(mp_fld, mp_entry))

(* Properties of the canonical parent *)

\* C18: check_with_spec succeeds only when the entry's own type satisfies
\* the node modality and exactly one parent satisfies the parent modality,
\* and then yields that parent's position; get_canonical_parent returns None
\* or one of the entry's direct parents, and None for an entry without
\* parents.
C18_CanonicalParentIsOneQualifyingParent ==
    /\ cn_check # NotChecked =>
          LET q == Qualifying(cn_entry, cn_spec) IN
          /\ cn_check.ok <=>
                Satisfies(cn_spec.here, cn_entry.entry_type) /\ Cardinality(q) = 1
          /\ cn_check.ok => q = {cn_check.pos[1]} /\ Len(cn_check.pos) = 1
    /\ cn_result # NotCalled =>
          /\ cn_entry.parents = <<>> => ~cn_result.found
          /\ cn_result.found =>
                /\ cn_result.pos \in 0..(Len(cn_entry.parents) - 1)
                /\ cn_result.parent = cn_entry.parents[cn_result.pos + 1]
                /\ \E k \in 1..Len(CanonSpecs) :
                      /\ Satisfies(CanonSpecs[k].here, cn_entry.entry_type)
                      /\ Qualifying(cn_entry, CanonSpecs[k]) = {cn_result.pos}

\* C18 witness: the canonical parent of an Article is its second parent, the
\* only Periodical, and a check against a spec two parents qualify for failed
C18_Witness ==
    /\ cn_result # NotCalled
    /\ cn_check # NotChecked
    /\ cn_entry.entry_type = "Article"
    /\ Len(cn_entry.parents) = 2
    /\ cn_entry.parents[1].entry_type = "Misc"
    /\ cn_entry.parents[2].entry_type = "Periodical"
    /\ cn_result.found
    /\ cn_result.pos = 1
    /\ cn_spec = section_spec
    /\ ~cn_check.ok

\* the first relationship, in the order of CanonSpecs, that e passes; 0 if none
FirstPassing(e) ==
    LET ok == {k \in 1..Len(CanonSpecs) : check_with_spec(e, CanonSpecs[k]).ok}
    IN IF ok = {} THEN 0 ELSE Least(ok)

\* e with its parents declared in the opposite order
Reversed(e) ==
    [e EXCEPT !.parents = [i \in 1..Len(e.parents) |-> e.parents[Len(e.parents) + 1 - i]]]

\* C28: get_canonical_parent tries InAnthology>Anthology, Article>Periodical,
\* Entry>(Reference|Repository), any>Proceedings, (Chapter|Scene|WebItem)>any
\* in this order and returns the parent chosen by the first relationship that
\* succeeds, whatever the declaration order of the parents: an Article with
\* one Periodical and one Proceedings parent resolves to the Periodical.
C28_CanonicalParentByPriority ==
    cn_result # NotCalled =>
        LET k == FirstPassing(cn_entry) IN
        /\ CanonSpecs = <<single_parent(Specific("InAnthology"), Specific("Anthology")),
                          single_parent(Specific("Article"), Specific("Periodical")),
                          single_parent(Specific("Entry"), Alternate({"Reference", "Repository"})),
                          single_parent(AnyType, Specific("Proceedings")),
                          single_parent(Alternate({"Chapter", "Scene", "WebItem"}), AnyType)>>
        /\ cn_result.found <=> k # 0
        /\ k # 0 =>
              /\ Qualifying(cn_entry, CanonSpecs[k]) = {cn_result.pos}
              /\ get_canonical_parent(Reversed(cn_entry)).parent = cn_result.parent
        /\ (/\ cn_entry.entry_type = "Article"
            /\ Len(cn_entry.parents) = 2
            /\ {cn_entry.parents[i].entry_type : i \in 1..2} = {"Periodical", "Proceedings"})
           => cn_result.found /\ cn_result.parent.entry_type = "Periodical"

\* C28 witness: an Article whose Proceedings parent is declared before its
\* Periodical parent resolved to the Periodical
C28_Witness ==
    /\ cn_result # NotCalled
    /\ cn_entry.entry_type = "Article"
    /\ Len(cn_entry.parents) = 2
    /\ cn_entry.parents[1].entry_type = "Proceedings"
    /\ cn_entry.parents[2].entry_type = "Periodical"
    /\ cn_result.found
    /\ cn_result.pos = 1

(* Properties of queries from several threads *)

\* what the call of thread t returns when it runs alone on the entry graph
\* as it was before any call
Alone(t) ==
    CASE th_call[t] = "map" -> RunMap(ConcField, th_graph0)
      [] th_call[t] = "map_parents" -> RunMapParents(ConcField, th_graph0, <<0>>)
      [] th_call[t] = "apply" -> Apply(th_sel[t], th_graph0)
      [] th_call[t] = "matches" ->
            IF Matches(th_sel[t], th_graph0) THEN "true" ELSE "false"

\* C19: matches, apply, map and map_parents are read-only: however the calls
\* of several threads interleave, the entry graph stays as it was, and every
\* finished call returned what it returns alone, whatever the other calls
\* returned.
C19_QueriesAreReadOnly ==
    /\ th_graph = th_graph0
    /\ \A t \in Threads : th_pc[t] = "done" => th_result[t] = Alone(t)

\* C19 witness: thread 1 is inside map_parents, past the first parent, while
\* thread 2 has finished an apply that bound two names
C19_Witness ==
    /\ th_pc[1] = "loop"
    /\ th_path[1] = <<1>>
    /\ th_pc[2] = "done"
    /\ th_call[2] = "apply"
    /\ th_result[2].some
    /\ BoundNames(th_result[2].b) = {"a", "p"}

(* Properties of Entry::new, Entry::has and the setters *)

\* the serialized names of the fields, and names that are no field
FieldNames == {"author", "date", "url"}
OtherNames == {"authors", "key", "type", "parent", "parents", "", "Date"}

\* the parts of an entry a setter of the field named k must leave alone
RestOf(e, k) ==
    [key |-> e.key, entry_type |-> e.entry_type, parents |-> e.parents,
     authors |-> IF k = "author" THEN None ELSE e.authors,
     date |-> IF k = "date" THEN None ELSE e.date,
     url |-> IF k = "url" THEN None ELSE e.url]

\* the field a setter is for
FieldOf(op) ==
    CASE op = "set_authors" -> "author"
      [] op = "set_date" -> "date"
      [] op = "set_url" -> "url"
      [] OTHER -> "none"

\* C22: after Entry::new, has(k) is false for every field name k; a setter
\* makes has of its field's serialized name true and leaves every other
\* field, the key, the type and the parents as they were; has is false for
\* every name that is not a field; and no operation makes has(k) false again.
C22_PresencePerField ==
    /\ [](bd_last = "new" => \A k \in FieldNames : ~has(bd_entry, k))
    /\ [](\A k \in OtherNames : ~has(bd_entry, k))
    /\ [][FieldOf(bd_last') \in FieldNames =>
            /\ has(bd_entry', FieldOf(bd_last'))
            /\ RestOf(bd_entry', FieldOf(bd_last')) = RestOf(bd_entry, FieldOf(bd_last'))]_vars
    /\ [][\A k \in FieldNames : has(bd_entry, k) => has(bd_entry', k)]_vars

\* C22 witness: set_authors was called on an entry with a date, a url and
\* two parents, and has("author") is true while has("authors") is not
C22_Witness ==
    /\ bd_last = "set_authors"
    /\ has(bd_entry, "author")
    /\ ~has(bd_entry, "authors")
    /\ bd_entry.date = "v"
    /\ bd_entry.url = "w"
    /\ Len(bd_entry.parents) = 2

(* Properties of Entry::social_handle *)

SocialCalled == sh_result.st \in {"None", "Some", "panic"}

\* the authors of the entry, and whether the author asked for has an alias
SocialAuthorList == UnwrapOrDefault(sh_entry.authors)
HasAlias ==
    /\ sh_index < Len(SocialAuthorList)
    /\ SocialAuthorList[sh_index + 1].alias.some

\* C24: social_handle never indexes past the author list: for a Post and
\* user_index 0 without an alias for the first author (also when there are
\* no authors at all) it answers from the URL or returns None; for
\* user_index > 0 at or past the number of authors it returns None.
C24_NeverIndexesPastAuthors ==
    (SocialCalled /\ sh_entry.entry_type = "Post") =>
        /\ sh_result.st # "panic"
        /\ (sh_index = 0 /\ ~HasAlias) => sh_result = Returned(HandleOfUrl(sh_entry.url))
        /\ (sh_index > 0 /\ sh_index >= Len(SocialAuthorList)) => sh_result.st = "None"

\* C25: social_handle returns None for every entry that is not a Post; every
\* handle it returns starts with '@': an alias that starts with '@' is
\* returned unchanged, any other alias and any URL path segment gets exactly
\* one '@' in front; the URL is consulted only for user_index 0.
C25_HandlesStartWithAt ==
    SocialCalled =>
        /\ sh_entry.entry_type # "Post" => sh_result.st = "None"
        /\ sh_result.st = "Some" =>
              /\ StartsWith(sh_result.handle, "@")
              /\ HasAlias =>
                    LET alias == SocialAuthorList[sh_index + 1].alias.str IN
                    IF StartsWith(alias, "@")
                    THEN sh_result.handle = alias
                    ELSE /\ Len(sh_result.handle) = Len(alias) + 1
                         /\ Tail(sh_result.handle) = alias
              /\ ~HasAlias =>
                    /\ sh_index = 0
                    /\ sh_entry.url.some
                    /\ sh_entry.url.host \in {"twitter.com", "x.com"}
                    /\ Len(sh_result.handle) = Len(sh_entry.url.segments.str) + 1
                    /\ Tail(sh_result.handle) = sh_entry.url.segments.str
        /\ (sh_index > 0 /\ ~HasAlias) => sh_result.st # "Some"

\* C25 witness: the second author has no alias and the URL is a twitter.com
\* URL, so nothing is returned for index 1, where the first author's alias
\* without '@' would have been returned with one for index 0
C25_Witness ==
    /\ SocialCalled
    /\ sh_entry.entry_type = "Post"
    /\ sh_index = 1
    /\ Len(SocialAuthorList) = 2
    /\ SocialAuthorList[1].alias = SomeString(<<"a">>)
    /\ ~SocialAuthorList[2].alias.some
    /\ sh_entry.url = SomeUrl("twitter.com", SomeString(<<"u">>))
    /\ sh_result.st = "None"
    /\ social_handle(sh_entry, 0) = Returned(SomeString(<<"@", "a">>))

(* Properties of and_list *)

IsName(x) == x \in NameSet
IsSeparator(x) == x \notin NameSet

\* C29: with the threshold 6, and_list emits for fewer than six names every
\* name once, in input order, separated by ", ", with "and " right before
\* the last name when there are two or more, and no "et al."; for six or more
\* names exactly the first two followed by "et al."; for none the empty
\* string.
C29_AndListFormat ==
    al_pc = "done" =>
        LET n == Len(al_names)
            m == Len(al_res)
        IN /\ n = 0 => al_res = <<>>
           /\ (0 < n /\ n < 6) =>
                 /\ SelectSeq(al_res, IsName) = al_names
                 /\ SelectSeq(al_res, IsSeparator) =
                       [i \in 1..(IF n >= 2 THEN n ELSE 0) |-> IF i = n THEN "and " ELSE ", "]
                 /\ \A i \in 1..m : (IsName(al_res[i]) /\ i < m) => al_res[i + 1] = ", "
                 /\ IsName(al_res[1]) /\ IsName(al_res[m])
                 /\ n >= 2 => al_res[m - 1] = "and "
           /\ n >= 6 =>
                 al_res = <<al_names[1], ", ", al_names[2], ", ", "et al.">>

\* C29 witness: calls have returned for five names
C29_Witness ==
    /\ al_pc = "done"
    /\ al_names = <<"A", "B", "A", "A", "B">>
    /\ al_res = <<"A", ", ", "B", ", ", "A", ", ", "A", ", ", "and ", "B">>

(* Properties of the IEEE generator *)

TitleCalled == ie_title \notin {TitleNotCalled, <<"parked">>}
AddonsCalled == ie_addons.st \in {"ok", "panic"}

\* C26: get_title_element renders an entry of any type that has a Conference
\* parent (here: a titled entry whose only parent is a titled Conference) as
\* the sentence-case entry title, a full stop, and "Presented at " with the
\* abbreviated title-case conference title, not as the quoted fallback title.
C26_ConferenceParentTitle ==
    (/\ TitleCalled
     /\ Ok(ie_entry, "title")
     /\ Len(ie_entry.parents) = 1
     /\ ie_entry.parents[1].entry_type = "Conference"
     /\ Ok(ie_entry.parents[1], "title"))
    => ie_title = <<"SC(entry.title)", ".", " ",
                    "Presented at ", "abbr(TC(canonical.title))">>

\* the check for a single Blog or WebItem parent
WebParentedCheck(e) ==
    check_with_spec(e, single_parent(AnyType, Alternate({"Blog", "WebItem"})))

\* the check for a preprint in a Repository
PreprintCheck(e) ==
    check_with_spec(e, single_parent(Alternate({"Article", "Book", "InAnthology"}),
                                     Specific("Repository")))

\* the entries for which get_addons takes the branch of the web-parent check
InWebParentedBranch(e) ==
    /\ Canonical(e).entry_type \notin TypedArms
    /\ ~PreprintCheck(e).ok
    /\ e.entry_type \notin {"WebItem", "Blog"}
    /\ WebParentedCheck(e).ok

\* C27: get_addons never unwraps a failed check, so it returns normally; in
\* the branch taken for an entry with a single Blog or WebItem parent the
\* parent consulted for title, publisher and organization is the one the
\* web-parent check located.
C27_AddonsNeverUnwrapsFailedCheck ==
    AddonsCalled =>
        /\ ie_addons.st = "ok"
        /\ InWebParentedBranch(ie_entry) =>
              ie_addons.items =
                  AddonsWebParented(ie_entry,
                                    ParentAt(ie_entry, WebParentedCheck(ie_entry)))

IsPages(item) == item[1] = "pp. "
IsArtNo(item) == item[1] = "Art. no. "
IsVolOrIssue(item) == item[1] \in {"vol. ", "no. "}
Positions(items, P(_)) == {i \in 1..Len(items) : P(items[i])}

\* C30: the canonical entry's type decides the branch of get_addons before
\* the preprint and web checks are considered: whatever the parents, a
\* Manuscript canonical yields exactly ["unpublished"], a Legislation
\* canonical an empty list, a Thesis canonical a list starting with "Thesis",
\* a Periodical canonical never both a page range and an "Art. no." item,
\* and a Report canonical the date exactly once, before volume and issue
\* when no URL is shown and after them otherwise.
C30_AddonsByCanonicalType ==
    AddonsCalled =>
        LET c == Canonical(ie_entry)
            items == ie_addons.items
            d == date_any(ie_entry)
            IsDate(item) == d # None /\ item = DateString(d)
            dates == Positions(items, IsDate)
            vols == Positions(items, IsVolOrIssue)
        IN /\ c.entry_type \in TypedArms => ie_addons.st = "ok"
           /\ c.entry_type = "Manuscript" => items = << <<"unpublished">> >>
           /\ c.entry_type = "Legislation" => items = <<>>
           /\ c.entry_type = "Thesis" => (Len(items) >= 1 /\ items[1] = <<"Thesis">>)
           /\ c.entry_type = "Periodical" =>
                 ~(Positions(items, IsPages) # {} /\ Positions(items, IsArtNo) # {})
           /\ c.entry_type = "Report" =>
                 /\ Cardinality(dates) = IF d = None THEN 0 ELSE 1
                 /\ \A i \in dates, j \in vols :
                       IF show_url(ie_entry) THEN j < i ELSE i < j

\* C30 witness: an Article with a page range and a serial number, in a
\* Periodical and in a Repository: the preprint check succeeds, the canonical
\* parent is the Periodical, and the addons have the pages without "Art. no."
C30_Witness ==
    /\ AddonsCalled
    /\ ie_entry.entry_type = "Article"
    /\ {"page-range", "serial-number"} \subseteq ie_entry.present
    /\ Len(ie_entry.parents) = 2
    /\ ie_entry.parents[1].entry_type = "Periodical"
    /\ ie_entry.parents[2].entry_type = "Repository"
    /\ PreprintCheck(ie_entry).ok
    /\ Canonical(ie_entry).entry_type = "Periodical"
    /\ Positions(ie_addons.items, IsPages) # {}
    /\ Positions(ie_addons.items, IsArtNo) = {}

====
